---- MODULE Spec2Model ----
(***************************************************************************)
(* Model of imply-druid-mcp: the path-parameter validator and the HTTP     *)
(* error formatter (utils.py), the upstream gateway ImplyClient            *)
(* (client.py) and the four tool handlers (tools/*.py).                    *)
(*                                                                         *)
(* A Python str is a sequence of one-character strings.  A display text    *)
(* (an exception message, a tool result) is a sequence of tokens whose     *)
(* concatenation is the Python string: literal pieces of an f-string are   *)
(* one token each, an interpolated str contributes its characters.         *)
(***************************************************************************)
EXTENDS Integers, Sequences, FiniteSets, TLC

VARIABLES vp, he, cfg, inv, cl, dp, cc, cube, invs

vars == <<vp, he, cfg, inv, cl, dp, cc, cube, invs>>

(***************************************************************************)
(* Bounds of the model.                                                    *)
(***************************************************************************)
\* longest path-parameter string given to the validator harness
MaxLen == 3
\* longest SQL text given to the query tools
MaxSqlLen == 3
\* range of HTTP status codes given to format_http_error
MinStatus == 100
MaxStatus == 599

(***************************************************************************)
(* Python values of the argument mapping: str, int, None, or key absent.   *)
(***************************************************************************)
Str(s) == [t |-> "str", s |-> s, n |-> 0]
IntVal(n) == [t |-> "int", s |-> <<>>, n |-> n]
BoolVal(b) == [t |-> "bool", s |-> <<>>, n |-> IF b THEN 1 ELSE 0]
PyNone == [t |-> "none", s |-> <<>>, n |-> 0]
Absent == [t |-> "absent", s |-> <<>>, n |-> 0]

\* Python truth value of `not v`
Falsy(v) ==
    \/ v.t = "none"
    \/ v.t = "str" /\ v.s = <<>>
    \/ v.t \in {"int", "bool"} /\ v.n = 0

\* dict.get(key): None when the key is absent
DictGet(v) == IF v.t = "absent" THEN PyNone ELSE v

\* dict.get(key, default): the default only when the key is absent
DictGetDefault(v, d) == IF v.t = "absent" THEN d ELSE v

(***************************************************************************)
(* Exceptions: a class name and the message str(e).                        *)
(***************************************************************************)
NoExc == [type |-> "none", msg |-> <<>>, status |-> 0, body |-> ""]
Exc(type, msg) == [type |-> type, msg |-> msg, status |-> 0, body |-> ""]
HTTPStatusError(status, body) ==
    [type |-> "HTTPStatusError", msg |-> <<"status ", ToString(status)>>,
     status |-> status, body |-> body]

\* isinstance(e, ValueError): json.JSONDecodeError subclasses ValueError
IsValueError(e) == e.type \in {"ValueError", "JSONDecodeError"}

(***************************************************************************)
(* utils.py: SAFE_PATH_PARAM_PATTERN and validate_path_param               *)
(***************************************************************************)
LowerCase == {"a","b","c","d","e","f","g","h","i","j","k","l","m",
              "n","o","p","q","r","s","t","u","v","w","x","y","z"}
UpperCase == {"A","B","C","D","E","F","G","H","I","J","K","L","M",
              "N","O","P","Q","R","S","T","U","V","W","X","Y","Z"}
Digits == {"0","1","2","3","4","5","6","7","8","9"}

\* the character class [a-zA-Z0-9_-]
SafeClass == LowerCase \cup UpperCase \cup Digits \cup {"_", "-"}

\* characters the model draws strings from: some of the class, some outside
Chars == {"a", "Z", "0", "_", "-", "/", " ", ";", ".", "\n"}

AllSafe(s) == \A i \in 1..Len(s) : s[i] \in SafeClass

\* Python's `$` (no MULTILINE): the end of the string, or just before a
\* newline that is the last character of the string
DollarAt(s, k) == k = Len(s) \/ (k = Len(s) - 1 /\ s[Len(s)] = "\n")

\* SAFE_PATH_PARAM_PATTERN.match(s) for ^[a-zA-Z0-9_-]+$ : some non-empty
\* prefix of class characters ends where `$` matches
SafePathParamMatch(s) ==
    \E k \in 1..Len(s) : AllSafe(SubSeq(s, 1, k)) /\ DollarAt(s, k)

InvalidCharsMsg(param_name) ==
    <<param_name, " contains invalid characters. ",
      "Only alphanumeric characters, hyphens, and underscores are allowed.">>

EmptyMsg(param_name) == <<param_name, " cannot be empty">>

ReMatchTypeErrorMsg == <<"expected string or bytes-like object, got 'int'">>

\* validate_path_param with the hyphen missing from the character class
validate_path_param_NoHyphen(value, param_name) ==
    IF Falsy(value)
    THEN [ok |-> FALSE, value |-> value, exc |-> Exc("ValueError", EmptyMsg(param_name))]
    ELSE IF value.t # "str"
    THEN [ok |-> FALSE, value |-> value, exc |-> Exc("TypeError", ReMatchTypeErrorMsg)]
    ELSE IF ~SafePathParamMatch(value.s) \/ \E i \in 1..Len(value.s) : value.s[i] = "-"
    THEN [ok |-> FALSE, value |-> value,
          exc |-> Exc("ValueError", InvalidCharsMsg(param_name))]
    ELSE [ok |-> TRUE, value |-> value, exc |-> NoExc]

\* validate_path_param(value, param_name): the value returned or the
\* exception raised
validate_path_param(value, param_name) ==
    IF Falsy(value)
    THEN [ok |-> FALSE, value |-> value, exc |-> Exc("ValueError", EmptyMsg(param_name))]
    ELSE IF value.t # "str"
    THEN [ok |-> FALSE, value |-> value, exc |-> Exc("TypeError", ReMatchTypeErrorMsg)]
    ELSE IF ~SafePathParamMatch(value.s)
    THEN [ok |-> FALSE, value |-> value,
          exc |-> Exc("ValueError", InvalidCharsMsg(param_name))]
    ELSE [ok |-> TRUE, value |-> value, exc |-> NoExc]

(***************************************************************************)
(* Response bodies and json.loads on them                                  *)
(***************************************************************************)
Bodies ==
    {"{}",
     "{\"a\": 1}",
     "{\"a\": 2}",
     "[]",
     "null",
     "upstream said no",
     "",
     "{\"values\": []}",
     "{\"values\": [{\"name\": \"t1\", \"type\": \"table\", \"availability\": \"ok\"}]}",
     "{\"values\": [{\"id\": \"d1\", \"name\": \"Dash\", \"description\": \"x\"}]}",
     "{\"values\": [{\"id\": \"c1\", \"title\": \"Cube\", \"source\": \"t1\"}, {\"id\": \"c2\"}]}",
     "{\"queryId\": \"q1\"}",
     "{\"data\": [[\"c1\", \"c2\"], [\"t\", \"t\"], [\"x\", \"y\"]]}",
     "{\"data\": [[\"c1\", \"c2\"], [\"t\", \"t\"], [\"x\", \"y\"], [\"1\", \"2\"]]}"}

\* response.json(): whether the body parses, the parsed value's Python
\* type, its str(), its json.dumps(indent=2) and, for a dict, the dict as a
\* record of its keys (lists are sequences, inner dicts records)
NotJson == [ok |-> FALSE, type |-> "none", repr |-> "", dumps |-> "", obj |-> <<>>]

JsonLoads(body) ==
    CASE body = "{}" ->
            [ok |-> TRUE, type |-> "dict", repr |-> "{}",
             dumps |-> "{}",
             obj |-> <<>>]
      [] body = "{\"a\": 1}" ->
            [ok |-> TRUE, type |-> "dict", repr |-> "{'a': 1}",
             dumps |-> "{\n  \"a\": 1\n}",
             obj |-> [a |-> 1]]
      [] body = "{\"a\": 2}" ->
            [ok |-> TRUE, type |-> "dict", repr |-> "{'a': 2}",
             dumps |-> "{\n  \"a\": 2\n}",
             obj |-> [a |-> 2]]
      [] body = "[]" ->
            [ok |-> TRUE, type |-> "list", repr |-> "[]",
             dumps |-> "[]",
             obj |-> <<>>]
      [] body = "null" ->
            [ok |-> TRUE, type |-> "NoneType", repr |-> "None",
             dumps |-> "null",
             obj |-> <<>>]
      [] body = "upstream said no" -> NotJson
      [] body = "" -> NotJson
      [] body = "{\"values\": []}" ->
            [ok |-> TRUE, type |-> "dict", repr |-> "{'values': []}",
             dumps |-> "{\n  \"values\": []\n}",
             obj |-> [values |-> <<>>]]
      [] body = "{\"values\": [{\"name\": \"t1\", \"type\": \"table\", \"availability\": \"ok\"}]}" ->
            [ok |-> TRUE, type |-> "dict", repr |-> "{'values': [{'name': 't1', 'type': 'table', 'availability': 'ok'}]}",
             dumps |-> "{\n  \"values\": [\n    {\n      \"name\": \"t1\",\n      \"type\": \"table\",\n      \"availability\": \"ok\"\n    }\n  ]\n}",
             obj |-> [values |-> <<[name |-> "t1", type |-> "table", availability |-> "ok"]>>]]
      [] body = "{\"values\": [{\"id\": \"d1\", \"name\": \"Dash\", \"description\": \"x\"}]}" ->
            [ok |-> TRUE, type |-> "dict", repr |-> "{'values': [{'id': 'd1', 'name': 'Dash', 'description': 'x'}]}",
             dumps |-> "{\n  \"values\": [\n    {\n      \"id\": \"d1\",\n      \"name\": \"Dash\",\n      \"description\": \"x\"\n    }\n  ]\n}",
             obj |-> [values |-> <<[id |-> "d1", name |-> "Dash", description |-> "x"]>>]]
      [] body = "{\"values\": [{\"id\": \"c1\", \"title\": \"Cube\", \"source\": \"t1\"}, {\"id\": \"c2\"}]}" ->
            [ok |-> TRUE, type |-> "dict", repr |-> "{'values': [{'id': 'c1', 'title': 'Cube', 'source': 't1'}, {'id': 'c2'}]}",
             dumps |-> "{\n  \"values\": [\n    {\n      \"id\": \"c1\",\n      \"title\": \"Cube\",\n      \"source\": \"t1\"\n    },\n    {\n      \"id\": \"c2\"\n    }\n  ]\n}",
             obj |-> [values |-> <<[id |-> "c1", title |-> "Cube", source |-> "t1"], [id |-> "c2"]>>]]
      [] body = "{\"queryId\": \"q1\"}" ->
            [ok |-> TRUE, type |-> "dict", repr |-> "{'queryId': 'q1'}",
             dumps |-> "{\n  \"queryId\": \"q1\"\n}",
             obj |-> [queryId |-> "q1"]]
      [] body = "{\"data\": [[\"c1\", \"c2\"], [\"t\", \"t\"], [\"x\", \"y\"]]}" ->
            [ok |-> TRUE, type |-> "dict", repr |-> "{'data': [['c1', 'c2'], ['t', 't'], ['x', 'y']]}",
             dumps |-> "{\n  \"data\": [\n    [\n      \"c1\",\n      \"c2\"\n    ],\n    [\n      \"t\",\n      \"t\"\n    ],\n    [\n      \"x\",\n      \"y\"\n    ]\n  ]\n}",
             obj |-> [data |-> <<<<"c1", "c2">>, <<"t", "t">>, <<"x", "y">>>>]]
      [] body = "{\"data\": [[\"c1\", \"c2\"], [\"t\", \"t\"], [\"x\", \"y\"], [\"1\", \"2\"]]}" ->
            [ok |-> TRUE, type |-> "dict", repr |-> "{'data': [['c1', 'c2'], ['t', 't'], ['x', 'y'], ['1', '2']]}",
             dumps |-> "{\n  \"data\": [\n    [\n      \"c1\",\n      \"c2\"\n    ],\n    [\n      \"t\",\n      \"t\"\n    ],\n    [\n      \"x\",\n      \"y\"\n    ],\n    [\n      \"1\",\n      \"2\"\n    ]\n  ]\n}",
             obj |-> [data |-> <<<<"c1", "c2">>, <<"t", "t">>, <<"x", "y">>, <<"1", "2">>>>]]

\* dict.get(key, default) on a parsed dict
JsonGet(obj, key, default) == IF key \in DOMAIN obj THEN obj[key] ELSE default

JSONDecodeErrorMsg == <<"Expecting value: line 1 column 1 (char 0)">>

(***************************************************************************)
(* utils.py: format_http_error                                             *)
(***************************************************************************)
\* format_http_error without its `>= 500` branch: 5xx falls to the default
format_http_error_LeakServer(status_code, body) ==
    IF status_code = 401
    THEN [raised |-> FALSE,
          text |-> <<"Authentication failed. Please check your API key or access token.">>]
    ELSE IF status_code = 403
    THEN [raised |-> FALSE,
          text |-> <<"Permission denied. You don't have access to this resource.">>]
    ELSE IF status_code = 404
    THEN [raised |-> FALSE, text |-> <<"Resource not found.">>]
    ELSE IF status_code = 429
    THEN [raised |-> FALSE, text |-> <<"Rate limit exceeded. Please try again later.">>]
    ELSE IF JsonLoads(body).ok
    THEN [raised |-> FALSE,
          text |-> <<"HTTP ", ToString(status_code), ": ", JsonLoads(body).repr>>]
    ELSE [raised |-> FALSE, text |-> <<"HTTP ", ToString(status_code), ": ", body>>]

\* format_http_error without the try/except around response.json()
format_http_error_NoTry(status_code, body) ==
    IF status_code = 401
    THEN [raised |-> FALSE,
          text |-> <<"Authentication failed. Please check your API key or access token.">>]
    ELSE IF status_code = 403
    THEN [raised |-> FALSE,
          text |-> <<"Permission denied. You don't have access to this resource.">>]
    ELSE IF status_code = 404
    THEN [raised |-> FALSE, text |-> <<"Resource not found.">>]
    ELSE IF status_code = 429
    THEN [raised |-> FALSE, text |-> <<"Rate limit exceeded. Please try again later.">>]
    ELSE IF status_code >= 500
    THEN [raised |-> FALSE,
          text |-> <<"Server error (", ToString(status_code), "). Please try again later.">>]
    ELSE IF JsonLoads(body).ok
    THEN [raised |-> FALSE,
          text |-> <<"HTTP ", ToString(status_code), ": ", JsonLoads(body).repr>>]
    ELSE [raised |-> TRUE, text |-> <<>>]

\* the text returned, or raised = TRUE if an exception left the function
format_http_error(status_code, body) ==
    IF status_code = 401
    THEN [raised |-> FALSE,
          text |-> <<"Authentication failed. Please check your API key or access token.">>]
    ELSE IF status_code = 403
    THEN [raised |-> FALSE,
          text |-> <<"Permission denied. You don't have access to this resource.">>]
    ELSE IF status_code = 404
    THEN [raised |-> FALSE, text |-> <<"Resource not found.">>]
    ELSE IF status_code = 429
    THEN [raised |-> FALSE, text |-> <<"Rate limit exceeded. Please try again later.">>]
    ELSE IF status_code >= 500
    THEN [raised |-> FALSE,
          text |-> <<"Server error (", ToString(status_code), "). Please try again later.">>]
    ELSE IF JsonLoads(body).ok
    THEN [raised |-> FALSE,
          text |-> <<"HTTP ", ToString(status_code), ": ", JsonLoads(body).repr>>]
    ELSE [raised |-> FALSE, text |-> <<"HTTP ", ToString(status_code), ": ", body>>]

(***************************************************************************)
(* config.py: the configuration the handlers read                          *)
(***************************************************************************)
\* default of ImplyConfig.default_query_timeout_ms
DefaultQueryTimeoutMs == 30000

\* largest max_query_length the model configures
MaxConfigLen == 2

ProjectId == "proj-1"

Configs ==
    {[project_id |-> ProjectId, max_query_length |-> m,
      default_query_timeout_ms |-> DefaultQueryTimeoutMs] : m \in 1..MaxConfigLen}

\* the module-level `_config` while it is None
NoConfig == [project_id |-> "None", max_query_length |-> 0, default_query_timeout_ms |-> 0]

\* a get_config() that builds the configuration anew on every call
get_config_Reload(global, loaded) == loaded

\* get_config(): `if _config is None: _config = ImplyConfig.from_env()`, then
\* `return _config`; global is `_config` before the call, loaded is what
\* from_env() builds from the environment; the value is both what the call
\* returns and `_config` after the call
get_config(global, loaded) == IF global = NoConfig THEN loaded ELSE global

\* set_config(config): `_config = config`
set_config(config) == config

(***************************************************************************)
(* client.py: ImplyClient.  _client is "None" after __init__, "open"       *)
(* after __aenter__, "closed" after __aexit__ closed it.                   *)
(***************************************************************************)
ClientInit == "None"

\* __aenter__: a fresh httpx.AsyncClient
AEnter(c) == "open"

\* __aexit__ that leaves the client open
AExit_NoClose(c) == c

\* __aexit__: `if self._client: await self._client.aclose()`
AExit(c) == IF c # "None" THEN "closed" ELSE c

NotInitializedMsg == <<"Client not initialized. Use 'async with' context manager.">>

ClientClosedMsg == <<"Cannot send a request, as the client has been closed.">>

\* the JSON body of a request: the keys of the payload dict
NoPayload ==
    [query |-> Absent, timeout |-> Absent, queryString |-> Absent,
     exactResultsOnly |-> Absent]

NoRequest ==
    [method |-> "none", prefix |-> <<>>, ident |-> <<>>, suffix |-> <<>>,
     json |-> NoPayload]

Request(method, prefix, ident, suffix, json) ==
    [method |-> method, prefix |-> prefix, ident |-> ident, suffix |-> suffix,
     json |-> json]

\* the path of a request: prefix, path-positioned identifier, suffix
PathOf(req) == req.prefix \o req.ident \o req.suffix

Raise(e) == [kind |-> "raise", exc |-> e, request |-> NoRequest]

\* ASCII characters that str.isprintable() rejects, among those the model uses
NonPrintableAscii == {"\n", "\t", "\r"}

\* repr() of such a character
CharRepr(ch) ==
    CASE ch = "\n" -> "'\\n'"
      [] ch = "\t" -> "'\\t'"
      [] OTHER -> "'\\r'"

\* url.find(char) for the first non-printable character of the path, whose
\* pieces before it start at index `at`; -1 when the path has none
RECURSIVE UrlFind(_, _)
UrlFind(pieces, at) ==
    IF pieces = <<>> THEN -1
    ELSE IF Head(pieces) \in NonPrintableAscii THEN at
    ELSE UrlFind(Tail(pieces), at + Len(Head(pieces)))

\* the message of httpx.InvalidURL for a path with a non-printable character
InvalidURLMsg(path) ==
    LET first == CHOOSE k \in DOMAIN path :
                    /\ path[k] \in NonPrintableAscii
                    /\ \A j \in 1..(k - 1) : path[j] \notin NonPrintableAscii
    IN  <<"Invalid non-printable ASCII character in URL, ", CharRepr(path[first]),
          " at position ", ToString(UrlFind(path, 0)), ".">>

\* the `client` property without its None check
ClientSend_NoGuard(c, req) ==
    IF UrlFind(PathOf(req), 0) >= 0
    THEN Raise(Exc("InvalidURL", InvalidURLMsg(PathOf(req))))
    ELSE IF c = "closed" THEN Raise(Exc("RuntimeError", ClientClosedMsg))
    ELSE [kind |-> "send", exc |-> NoExc, request |-> req]

\* `self.client.<method>(url, ...)`: the `client` property raises while
\* _client is None; httpx parses the URL and raises InvalidURL for a
\* non-printable ASCII character before it looks at the client's state; an
\* httpx.AsyncClient that was closed refuses to send
ClientSend(c, req) ==
    IF c = "None" THEN Raise(Exc("RuntimeError", NotInitializedMsg))
    ELSE IF UrlFind(PathOf(req), 0) >= 0
    THEN Raise(Exc("InvalidURL", InvalidURLMsg(PathOf(req))))
    ELSE IF c = "closed" THEN Raise(Exc("RuntimeError", ClientClosedMsg))
    ELSE [kind |-> "send", exc |-> NoExc, request |-> req]

\* a gateway operation that puts its identifier in the path unvalidated
ValidatedSend_NoValidation(c, value, param_name, method, prefix, suffix) ==
    IF value.t # "str" THEN Raise(Exc("TypeError", ReMatchTypeErrorMsg))
    ELSE ClientSend(c, Request(method, prefix, value.s, suffix, NoPayload))

\* a gateway operation whose path carries an identifier: validate, then send
ValidatedSend(c, value, param_name, method, prefix, suffix) ==
    LET v == validate_path_param(value, param_name)
    IN  IF ~v.ok THEN Raise(v.exc)
        ELSE ClientSend(c, Request(method, prefix, v.value.s, suffix, NoPayload))

ProjectPath(project_id, tail) == <<"/v1/projects/", project_id, tail>>

execute_query(c, project_id, sql, async_mode, timeout_ms) ==
    LET endpoint == IF async_mode THEN "/query/sql/statements" ELSE "/query/sql"
        payload == [NoPayload EXCEPT
                      !.query = sql,
                      !.timeout = IF Falsy(timeout_ms) THEN Absent ELSE timeout_ms]
    IN  ClientSend(c, Request("POST", ProjectPath(project_id, endpoint), <<>>, <<>>,
                              payload))

get_query_results(c, project_id, query_id) ==
    ValidatedSend(c, query_id, "query_id", "GET",
                  ProjectPath(project_id, "/query/sql/statements/"), <<"/results">>)

get_query_status(c, project_id, query_id) ==
    ValidatedSend(c, query_id, "query_id", "GET",
                  ProjectPath(project_id, "/query/sql/statements/"), <<>>)

cancel_query(c, project_id, query_id) ==
    ValidatedSend(c, query_id, "query_id", "DELETE",
                  ProjectPath(project_id, "/query/sql/statements/"), <<>>)

list_tables(c, project_id) ==
    ClientSend(c, Request("GET", ProjectPath(project_id, "/tables"), <<>>, <<>>,
                          NoPayload))

get_table(c, project_id, table_name) ==
    ValidatedSend(c, table_name, "table_name", "GET",
                  ProjectPath(project_id, "/tables/"), <<>>)

list_dashboards(c, project_id) ==
    ClientSend(c, Request("GET", ProjectPath(project_id, "/dashboards"), <<>>, <<>>,
                          NoPayload))

get_dashboard(c, project_id, dashboard_id) ==
    ValidatedSend(c, dashboard_id, "dashboard_id", "GET",
                  ProjectPath(project_id, "/dashboards/"), <<>>)

list_data_cubes(c, project_id) ==
    ClientSend(c, Request("GET", ProjectPath(project_id, "/data-cubes"), <<>>, <<>>,
                          NoPayload))

get_data_cube(c, project_id, cube_id) ==
    ValidatedSend(c, cube_id, "cube_id", "GET",
                  ProjectPath(project_id, "/data-cubes/"), <<>>)

\* query_data_cube that passes its query string through the path validator
query_data_cube_Validated(c, project_id, query_string, exact_results_only) ==
    LET v == validate_path_param(query_string, "query_string")
    IN  IF ~v.ok THEN Raise(v.exc)
        ELSE ClientSend(c, Request("POST",
                          <<"/v0/projects/", project_id, "/pivot/data-cube-sql/query">>,
                          <<>>, <<>>,
                          [NoPayload EXCEPT !.queryString = v.value,
                                            !.exactResultsOnly = exact_results_only]))

query_data_cube(c, project_id, query_string, exact_results_only) ==
    ClientSend(c, Request("POST",
                          <<"/v0/projects/", project_id, "/pivot/data-cube-sql/query">>,
                          <<>>, <<>>,
                          [NoPayload EXCEPT !.queryString = query_string,
                                            !.exactResultsOnly = exact_results_only]))

(***************************************************************************)
(* The upstream's answer to a sent request, and what the gateway operation *)
(* makes of it: raise_for_status(), then response.json().                  *)
(***************************************************************************)
Statuses == {200, 204, 302, 400, 401, 403, 404, 422, 429, 500, 503}

TransportErrors == {"ConnectError", "ReadTimeout"}

\* the messages httpx gives a transport error: a ConnectError's depends on
\* how the connection failed (refused, or the host name did not resolve)
TransportErrorMsgs(e) ==
    IF e = "ConnectError"
    THEN {"All connection attempts failed", "[Errno -2] Name or service not known"}
    ELSE {""}

Responses ==
    {[kind |-> "response", status |-> s, body |-> b, error |-> "none"] :
        s \in Statuses, b \in Bodies}
    \cup UNION {{[kind |-> "error", status |-> 0, body |-> m, error |-> e] :
                    m \in TransportErrorMsgs(e)} : e \in TransportErrors}

\* str(e) of the transport's error, which an error answer carries as its body
TransportErrorMsg(r) == <<r.body>>

CancelledJson ==
    [ok |-> TRUE, type |-> "dict", repr |-> "{'status': 'cancelled'}",
     dumps |-> "{\n  \"status\": \"cancelled\"\n}", obj |-> [status |-> "cancelled"]]

Value(j) == [kind |-> "value", exc |-> NoExc, json |-> j]

RaiseValue(e) == [kind |-> "raise", exc |-> e, json |-> NotJson]

\* httpx raise_for_status(): every response that is not 2xx raises
IsSuccess(status) == status >= 200 /\ status <= 299

\* `response.raise_for_status(); return response.json()` after the awaited
\* send, which raises the transport's error instead of returning
ReceiveJson(r) ==
    IF r.kind = "error" THEN RaiseValue(Exc(r.error, TransportErrorMsg(r)))
    ELSE IF ~IsSuccess(r.status) THEN RaiseValue(HTTPStatusError(r.status, r.body))
    ELSE IF ~JsonLoads(r.body).ok THEN RaiseValue(Exc("JSONDecodeError", JSONDecodeErrorMsg))
    ELSE Value(JsonLoads(r.body))

\* cancel_query: `response.json() if response.content else {"status": "cancelled"}`
ReceiveCancel(r) ==
    IF r.kind = "error" THEN RaiseValue(Exc(r.error, TransportErrorMsg(r)))
    ELSE IF ~IsSuccess(r.status) THEN RaiseValue(HTTPStatusError(r.status, r.body))
    ELSE IF r.body = "" THEN Value(CancelledJson)
    ELSE IF ~JsonLoads(r.body).ok THEN RaiseValue(Exc("JSONDecodeError", JSONDecodeErrorMsg))
    ELSE Value(JsonLoads(r.body))

(***************************************************************************)
(* tools/*.py: the handlers.  Each handler is modelled by three operators: *)
(* <handler>_call, the body of the `async with` block up to the awaited    *)
(* gateway call; <handler>_result, the rest of the body once the upstream  *)
(* has answered; <handler>_except, the except clauses.                     *)
(***************************************************************************)
QueryToolNames ==
    {"execute_sql_query", "execute_async_query", "get_query_results",
     "get_query_status", "cancel_query"}
TableToolNames == {"list_tables", "get_table_schema"}
DashboardToolNames == {"list_dashboards", "get_dashboard"}
DatacubeToolNames == {"list_data_cubes", "get_data_cube", "query_data_cube"}

ToolNames ==
    QueryToolNames \cup TableToolNames \cup DashboardToolNames \cup DatacubeToolNames

NoArgs ==
    [sql |-> Absent, timeout_ms |-> Absent, query_id |-> Absent,
     table_name |-> Absent, dashboard_id |-> Absent, cube_id |-> Absent,
     query_string |-> Absent, exact_results_only |-> Absent]

Return(text) == [kind |-> "return", exc |-> NoExc, text |-> text]

RaiseText(e) == [kind |-> "raise", exc |-> e, text |-> <<>>]

Required(what) == Exc("ValueError", <<what, " is required">>)

UnknownTool(name) == Exc("ValueError", <<"Unknown tool: ", name>>)

QueryTooLongMsg(config) ==
    <<"Query too long. Maximum length: ", ToString(config.max_query_length)>>

\* validate_sql with `>=` for `>`
validate_sql_OffByOne(sql, config) ==
    IF sql.t # "str" THEN Exc("TypeError", <<"object of type 'int' has no len()">>)
    ELSE IF Len(sql.s) >= config.max_query_length
    THEN Exc("ValueError", QueryTooLongMsg(config))
    ELSE NoExc

\* validate_sql(sql): the exception raised, NoExc if none
validate_sql(sql, config) ==
    IF sql.t # "str" THEN Exc("TypeError", <<"object of type 'int' has no len()">>)
    ELSE IF Len(sql.s) > config.max_query_length
    THEN Exc("ValueError", QueryTooLongMsg(config))
    ELSE NoExc

\* `result.get(...)` on a parsed body that is not a dict
NoGetAttr(j) == Exc("AttributeError", <<"'", j.type, "' object has no attribute 'get'">>)

GenericErrorText == <<"Error: An unexpected error occurred while processing the request.">>

\* `except httpx.HTTPStatusError as e`: "Error: " + format_http_error(e)
HttpErrorResult(e) ==
    LET f == format_http_error(e.status, e.body)
    IN  [escaped |-> f.raised, text |-> IF f.raised THEN <<>> ELSE <<"Error: ">> \o f.text]

\* f"Error: {str(e)}"
StrErrorResult(e) == [escaped |-> FALSE, text |-> <<"Error: ">> \o e.msg]

(* ---------------------------- query_tools.py --------------------------- *)
ExecuteCall(name, args, config, c) ==
    LET sql == DictGet(args.sql)
        timeout_ms == DictGetDefault(args.timeout_ms,
                                     IntVal(config.default_query_timeout_ms))
    IN  IF Falsy(sql) THEN Raise(Required("SQL query"))
        ELSE IF validate_sql(sql, config) # NoExc THEN Raise(validate_sql(sql, config))
        ELSE execute_query(c, config.project_id, sql, name = "execute_async_query",
                           timeout_ms)

handle_query_tool_call(name, args, config, c) ==
    LET query_id == DictGet(args.query_id)
    IN  CASE name \in {"execute_sql_query", "execute_async_query"} ->
                ExecuteCall(name, args, config, c)
          [] name = "get_query_results" ->
                IF Falsy(query_id) THEN Raise(Required("query_id"))
                ELSE get_query_results(c, config.project_id, query_id)
          [] name = "get_query_status" ->
                IF Falsy(query_id) THEN Raise(Required("query_id"))
                ELSE get_query_status(c, config.project_id, query_id)
          [] name = "cancel_query" ->
                IF Falsy(query_id) THEN Raise(Required("query_id"))
                ELSE cancel_query(c, config.project_id, query_id)
          [] OTHER -> Raise(UnknownTool(name))

\* "\n".join(lines), each line a sequence of pieces
RECURSIVE JoinLines(_)
JoinLines(lines) ==
    IF lines = <<>> THEN <<>>
    ELSE IF Len(lines) = 1 THEN Head(lines)
    ELSE Head(lines) \o <<"\n">> \o JoinLines(Tail(lines))

\* the listing "<What> in project (N total):\n\n" and one entry per item
Listing(what, lines) ==
    <<what, " in project (", ToString(Len(lines)), " total):\n\n">> \o JoinLines(lines)

AsyncStartedText(query_id) ==
    <<"Async query started successfully.\n\nQuery ID: ", query_id,
      "\n\nUse 'get_query_status' to check progress and 'get_query_results' to retrieve results.">>

handle_query_tool_result(name, args, r) ==
    LET v == IF name = "cancel_query" THEN ReceiveCancel(r) ELSE ReceiveJson(r)
    IN  IF v.kind = "raise" THEN RaiseText(v.exc)
        ELSE CASE name = "execute_sql_query" ->
                    Return(<<"Query executed successfully:\n\n", v.json.dumps>>)
               [] name = "execute_async_query" ->
                    IF v.json.type # "dict" THEN RaiseText(NoGetAttr(v.json))
                    ELSE Return(AsyncStartedText(JsonGet(v.json.obj, "queryId", "unknown")))
               [] name = "get_query_results" ->
                    Return(<<"Query results:\n\n", v.json.dumps>>)
               [] name = "get_query_status" ->
                    Return(<<"Query status:\n\n", v.json.dumps>>)
               [] OTHER ->
                    Return(<<"Query cancelled successfully.\n\n", v.json.dumps>>)

\* handle_query_tool with the HTTPStatusError clause as its only except clause
handle_query_tool_except_HttpOnly(e) ==
    IF e.type = "HTTPStatusError" THEN HttpErrorResult(e)
    ELSE [escaped |-> TRUE, text |-> <<>>]

handle_query_tool_except(e) ==
    IF e.type = "HTTPStatusError" THEN HttpErrorResult(e) ELSE StrErrorResult(e)

(* ---------------------------- table_tools.py --------------------------- *)
\* handle_table_tool without the `if not table_name` check
handle_table_tool_call_NoRequiredCheck(name, args, config, c) ==
    LET table_name == DictGet(args.table_name)
    IN  CASE name = "list_tables" -> list_tables(c, config.project_id)
          [] name = "get_table_schema" -> get_table(c, config.project_id, table_name)
          [] OTHER -> Raise(UnknownTool(name))

handle_table_tool_call(name, args, config, c) ==
    LET table_name == DictGet(args.table_name)
    IN  CASE name = "list_tables" -> list_tables(c, config.project_id)
          [] name = "get_table_schema" ->
                IF Falsy(table_name) THEN Raise(Required("table_name"))
                ELSE get_table(c, config.project_id, table_name)
          [] OTHER -> Raise(UnknownTool(name))

\* one line of the table listing
TableLine(table) ==
    <<"- ", JsonGet(table, "name", "unknown"), ": ", JsonGet(table, "type", "unknown"),
      " (", JsonGet(table, "availability", "unknown"), ")">>

handle_table_tool_result(name, args, r) ==
    LET v == ReceiveJson(r)
        tables == JsonGet(v.json.obj, "values", <<>>)
    IN  IF v.kind = "raise" THEN RaiseText(v.exc)
        ELSE IF name = "list_tables"
        THEN IF v.json.type # "dict" THEN RaiseText(NoGetAttr(v.json))
             ELSE IF Len(tables) = 0 THEN Return(<<"No tables found in the project.">>)
             ELSE Return(Listing("Tables", [k \in 1..Len(tables) |-> TableLine(tables[k])]))
        ELSE Return(<<"Table schema for '">> \o args.table_name.s
                    \o <<"':\n\n", v.json.dumps>>)

handle_table_tool_except(e) ==
    IF e.type = "HTTPStatusError" THEN HttpErrorResult(e) ELSE StrErrorResult(e)

(* -------------------------- dashboard_tools.py ------------------------- *)
handle_dashboard_tool_call(name, args, config, c) ==
    LET dashboard_id == DictGet(args.dashboard_id)
    IN  CASE name = "list_dashboards" -> list_dashboards(c, config.project_id)
          [] name = "get_dashboard" ->
                IF Falsy(dashboard_id) THEN Raise(Required("dashboard_id"))
                ELSE get_dashboard(c, config.project_id, dashboard_id)
          [] OTHER -> Raise(UnknownTool(name))

\* one line of the dashboard listing
DashboardLine(dashboard) ==
    <<"- ", JsonGet(dashboard, "title", "Untitled"), " (ID: ",
      JsonGet(dashboard, "id", "unknown"), ")">>

handle_dashboard_tool_result(name, args, r) ==
    LET v == ReceiveJson(r)
        dashboards == JsonGet(v.json.obj, "values", <<>>)
    IN  IF v.kind = "raise" THEN RaiseText(v.exc)
        ELSE IF name = "list_dashboards"
        THEN IF v.json.type # "dict" THEN RaiseText(NoGetAttr(v.json))
             ELSE IF Len(dashboards) = 0
             THEN Return(<<"No dashboards found in the project.">>)
             ELSE Return(Listing("Dashboards",
                                 [k \in 1..Len(dashboards) |-> DashboardLine(dashboards[k])]))
        ELSE Return(<<"Dashboard details for '">> \o args.dashboard_id.s
                    \o <<"':\n\n", v.json.dumps>>)

handle_dashboard_tool_except(e) ==
    IF e.type = "HTTPStatusError" THEN HttpErrorResult(e)
    ELSE IF IsValueError(e) THEN StrErrorResult(e)
    ELSE [escaped |-> FALSE, text |-> GenericErrorText]

(* -------------------------- datacube_tools.py -------------------------- *)
handle_datacube_tool_call(name, args, config, c) ==
    LET cube_id == DictGet(args.cube_id)
        query_string == DictGet(args.query_string)
        exact_results_only == DictGetDefault(args.exact_results_only, BoolVal(FALSE))
    IN  CASE name = "list_data_cubes" -> list_data_cubes(c, config.project_id)
          [] name = "get_data_cube" ->
                IF Falsy(cube_id) THEN Raise(Required("cube_id"))
                ELSE get_data_cube(c, config.project_id, cube_id)
          [] name = "query_data_cube" ->
                IF Falsy(query_string) THEN Raise(Required("query_string"))
                ELSE query_data_cube(c, config.project_id, query_string,
                                     exact_results_only)
          [] OTHER -> Raise(UnknownTool(name))

\* utils.py: the most data rows a query_data_cube result displays
MAX_DISPLAY_ROWS == 100

\* sep.join(cells): the cells with the separator between neighbours
Join(cells, sep) ==
    IF cells = <<>> THEN <<>>
    ELSE [p \in 1..(2 * Len(cells) - 1) |->
            IF p % 2 = 1 THEN cells[(p + 1) \div 2] ELSE sep]

\* data rows taken from the second row on, the type rows included
DataRows_FromOne(data) == SubSeq(data, 2, Len(data))

\* `rows = data[3:]`
DataRows(data) == SubSeq(data, 4, Len(data))

\* `rows[:MAX_DISPLAY_ROWS]`
DisplayedRows(rows) ==
    SubSeq(rows, 1, IF Len(rows) < MAX_DISPLAY_ROWS THEN Len(rows) ELSE MAX_DISPLAY_ROWS)

\* a truncation note written from MAX_DISPLAY_ROWS rows on
TruncationNote_AtCap(rows) ==
    IF Len(rows) >= MAX_DISPLAY_ROWS
    THEN <<"\n... and ", ToString(Len(rows) - MAX_DISPLAY_ROWS), " more rows">>
    ELSE <<>>

\* `if len(rows) > MAX_DISPLAY_ROWS: output += f"\n... and {...} more rows"`
TruncationNote(rows) ==
    IF Len(rows) > MAX_DISPLAY_ROWS
    THEN <<"\n... and ", ToString(Len(rows) - MAX_DISPLAY_ROWS), " more rows">>
    ELSE <<>>

\* the loop `for row in ...: output += " | ".join(...) + "\n"`
RECURSIVE RenderRows(_)
RenderRows(rows) ==
    IF rows = <<>> THEN <<>>
    ELSE Join(Head(rows), " | ") \o <<"\n">> \o RenderRows(Tail(rows))

\* the text of a query_data_cube result; has_data says whether the
\* response dict has a `data` field, data is its value (rows of cells,
\* each cell given by its str())
query_data_cube_output(has_data, data) ==
    LET d == IF has_data THEN data ELSE <<>>
    IN  IF Len(d) <= 3 THEN <<"Query returned no results.">>
        ELSE <<"Query Results (", ToString(Len(DataRows(d))), " rows):\n\n", "Columns: ">>
             \o Join(d[1], ", ") \o <<"\n\n">>
             \o RenderRows(DisplayedRows(DataRows(d)))
             \o TruncationNote(DataRows(d))

\* one entry of the data cube listing
CubeLine(data_cube) ==
    <<"- ID: ", JsonGet(data_cube, "id", "unknown"), "\n  Title: ",
      JsonGet(data_cube, "title", "No title"), "\n  Source: ",
      JsonGet(data_cube, "source", "unknown")>>

handle_datacube_tool_result(name, args, r) ==
    LET v == ReceiveJson(r)
        cubes == JsonGet(v.json.obj, "values", <<>>)
    IN  IF v.kind = "raise" THEN RaiseText(v.exc)
        ELSE CASE name = "list_data_cubes" ->
                    IF v.json.type # "dict" THEN RaiseText(NoGetAttr(v.json))
                    ELSE IF Len(cubes) = 0
                    THEN Return(<<"No data cubes found in the project.">>)
                    ELSE Return(Listing("Data cubes",
                                        [k \in 1..Len(cubes) |-> CubeLine(cubes[k])]))
               [] name = "get_data_cube" ->
                    Return(<<"Data cube details for '">> \o args.cube_id.s
                           \o <<"':\n\n", v.json.dumps>>)
               [] OTHER ->
                    IF v.json.type # "dict" THEN RaiseText(NoGetAttr(v.json))
                    ELSE Return(query_data_cube_output("data" \in DOMAIN v.json.obj,
                                                       JsonGet(v.json.obj, "data", <<>>)))

handle_datacube_tool_except(e) ==
    IF e.type = "HTTPStatusError" THEN HttpErrorResult(e)
    ELSE IF IsValueError(e) THEN StrErrorResult(e)
    ELSE [escaped |-> FALSE, text |-> GenericErrorText]

(***************************************************************************)
(* One tool invocation: the handler runs from its entry to the awaited     *)
(* upstream call (or to its return, if it never sends), and from the       *)
(* upstream's answer to its return.  `async with` releases the client on   *)
(* the way out, before the except clauses build the result.                *)
(***************************************************************************)
Handlers == {"query", "table", "dashboard", "datacube"}

HandlerCall(handler, name, args, config, c) ==
    CASE handler = "query" -> handle_query_tool_call(name, args, config, c)
      [] handler = "table" -> handle_table_tool_call(name, args, config, c)
      [] handler = "dashboard" -> handle_dashboard_tool_call(name, args, config, c)
      [] OTHER -> handle_datacube_tool_call(name, args, config, c)

HandlerResult(handler, name, args, r) ==
    CASE handler = "query" -> handle_query_tool_result(name, args, r)
      [] handler = "table" -> handle_table_tool_result(name, args, r)
      [] handler = "dashboard" -> handle_dashboard_tool_result(name, args, r)
      [] OTHER -> handle_datacube_tool_result(name, args, r)

HandlerExcept(handler, e) ==
    CASE handler = "query" -> handle_query_tool_except(e)
      [] handler = "table" -> handle_table_tool_except(e)
      [] handler = "dashboard" -> handle_dashboard_tool_except(e)
      [] OTHER -> handle_datacube_tool_except(e)

InvIdle ==
    [pc |-> "idle", handler |-> "none", name |-> "none", args |-> NoArgs,
     client |-> ClientInit, request |-> NoRequest, nsent |-> 0, exc |-> NoExc,
     pending |-> <<>>, result |-> <<>>, escaped |-> FALSE]

\* leaving the `async with` block by a return
LeaveReturn(i, text) ==
    [i EXCEPT !.pc = "done", !.client = AExit(i.client), !.result = text]

\* leaving the `async with` block by an exception, caught by the except clauses
LeaveRaise(i, handler, e) ==
    [i EXCEPT !.pc = "done", !.client = AExit(i.client), !.exc = e,
              !.result = HandlerExcept(handler, e).text,
              !.escaped = HandlerExcept(handler, e).escaped]

\* entry of a handler: ImplyClient(config), __aenter__, the body up to the await
Begin(handler, name, args, config) ==
    LET c == AEnter(ClientInit)
        o == HandlerCall(handler, name, args, config, c)
        i == [InvIdle EXCEPT !.handler = handler, !.name = name, !.args = args,
                             !.client = c]
    IN  IF o.kind = "send"
        THEN [i EXCEPT !.pc = "awaiting", !.request = o.request, !.nsent = 1]
        ELSE LeaveRaise(i, handler, o.exc)

\* __aexit__ after an answered request: aclose() closes the client and the
\* pooled connection, and awaiting the connection's close hands control to
\* the event loop before the handler returns or its except clause runs;
\* the value being returned or the exception in flight is kept meanwhile
Closing(i, o) ==
    [i EXCEPT !.pc = "closing", !.client = AExit(i.client), !.exc = o.exc,
              !.pending = o.text]

\* a handler that sends the request again after a failed upstream call
Resume_Retry(i, r) ==
    LET o == HandlerResult(i.handler, i.name, i.args, r)
    IN  IF o.kind = "raise" /\ i.nsent < 2 THEN [i EXCEPT !.nsent = i.nsent + 1]
        ELSE IF r.kind = "response" THEN Closing(i, o)
        ELSE LeaveRaise(i, i.handler, o.exc)

\* the upstream answered: the rest of the body, up to the release of the
\* client; with no connection to close (the transport failed) the release
\* does not suspend and the except clause follows at once
Resume(i, r) ==
    LET o == HandlerResult(i.handler, i.name, i.args, r)
    IN  IF r.kind = "response" THEN Closing(i, o)
        ELSE LeaveRaise(i, i.handler, o.exc)

\* the client is released: the handler returns, or its except clause
\* builds the result
Finish(i) ==
    IF i.exc = NoExc THEN LeaveReturn(i, i.pending)
    ELSE LeaveRaise(i, i.handler, i.exc)

(***************************************************************************)
(* Inputs of the model                                                     *)
(***************************************************************************)
StringsUpTo(alphabet, n) == UNION {[1..k -> alphabet] : k \in 0..n}

IdValues ==
    {Absent, PyNone, IntVal(0), IntVal(7), Str(<<>>), Str(<<"a">>),
     Str(<<"q", "-", "1", "_", "Z">>), Str(<<".", ".", "/", "e", "t", "c">>),
     Str(<<"a", " ", "b">>), Str(<<"i", "d", ";", "d", "r", "o", "p">>),
     Str(<<"a", "\n">>), Str(<<"\n">>), Str(<<"a", "\n", "\n">>)}

SqlChars == {"s", " ", ";"}

SqlValues ==
    {Absent, PyNone, IntVal(7)} \cup {Str(s) : s \in StringsUpTo(SqlChars, MaxSqlLen)}

TimeoutValues == {Absent, PyNone, IntVal(0), IntVal(5000)}

QueryStringValues ==
    {Absent, PyNone, Str(<<>>), Str(<<"S", " ", "'", "x", "'", "/", ";">>), IntVal(7)}

ExactValues == {Absent, BoolVal(TRUE)}

ArgsFor(name) ==
    CASE name \in {"execute_sql_query", "execute_async_query"} ->
            {[NoArgs EXCEPT !.sql = s, !.timeout_ms = t] :
                s \in SqlValues, t \in TimeoutValues}
      [] name \in {"get_query_results", "get_query_status", "cancel_query"} ->
            {[NoArgs EXCEPT !.query_id = v] : v \in IdValues}
      [] name = "get_table_schema" -> {[NoArgs EXCEPT !.table_name = v] : v \in IdValues}
      [] name = "get_dashboard" -> {[NoArgs EXCEPT !.dashboard_id = v] : v \in IdValues}
      [] name = "get_data_cube" -> {[NoArgs EXCEPT !.cube_id = v] : v \in IdValues}
      [] name = "query_data_cube" ->
            {[NoArgs EXCEPT !.query_string = q, !.exact_results_only = x] :
                q \in QueryStringValues, x \in ExactValues}
      [] OTHER -> {NoArgs}

\* names a handler may be called with: the twelve tools and one that is none
CallNames == ToolNames \cup {"no_such_tool"}

ParamNames == {"query_id", "table_name", "dashboard_id", "cube_id"}

(***************************************************************************)
(* State                                                                   *)
(***************************************************************************)
NoValidation == [ok |-> FALSE, value |-> Absent, exc |-> NoExc]

VpIdle == [pc |-> "idle", value |-> Absent, param_name |-> "none", out |-> NoValidation]

NoFormat == [raised |-> FALSE, text |-> <<>>]

HeIdle ==
    [pc |-> "idle", status |-> 0, body1 |-> "", body2 |-> "", out1 |-> NoFormat,
     out2 |-> NoFormat]

NoOutcome == [kind |-> "none", exc |-> NoExc, request |-> NoRequest]

ClIdle ==
    [client |-> ClientInit, op |-> "none", value |-> Absent, at |-> "none",
     outcome |-> NoOutcome]

CfgIdle == CHOOSE c \in Configs : c.max_query_length = 1

\* number of tool invocations that run concurrently
NumInvocations == 2

NoResponse == [kind |-> "none", status |-> 0, body |-> "", error |-> "none"]

DpIdle ==
    [pc |-> "idle", name |-> "none", args |-> NoArgs, handler |-> "none",
     exc |-> NoExc, result |-> <<>>]

CcIdle ==
    [pc |-> "idle", api_key |-> PyNone, access_token |-> PyNone,
     cloud_provider |-> <<"a", "w", "s">>, exc |-> NoExc, headers |-> <<>>]

CubeIdle == [pc |-> "idle", has_data |-> FALSE, data |-> <<>>, out |-> <<>>]

\* the coroutine frame of an invocation that has not started; it refers
\* to no client (session 0)
FrameIdle == [i |-> InvIdle, config |-> NoConfig, session |-> 0, resp |-> NoResponse]

InvsIdle == [sessions |-> <<>>, frames |-> [k \in 1..NumInvocations |-> FrameIdle]]

\* the state of the parts a specification does not use
RestIdle ==
    /\ dp = DpIdle
    /\ cc = CcIdle
    /\ cube = CubeIdle
    /\ invs = InvsIdle

(***************************************************************************)
(* Spec: a tool invocation                                                 *)
(***************************************************************************)
Init ==
    /\ cfg \in Configs
    /\ inv = InvIdle
    /\ vp = VpIdle
    /\ he = HeIdle
    /\ cl = ClIdle
    /\ RestIdle

HandleTool(handler) ==
    /\ inv.pc = "idle"
    /\ \E name \in CallNames : \E args \in ArgsFor(name) :
          inv' = Begin(handler, name, args, cfg)
    /\ UNCHANGED <<vp, he, cfg, cl, dp, cc, cube, invs>>

HandleQueryTool == HandleTool("query")

HandleTableTool == HandleTool("table")

HandleDashboardTool == HandleTool("dashboard")

HandleDatacubeTool == HandleTool("datacube")

UpstreamResponds ==
    /\ inv.pc = "awaiting"
    /\ \E r \in Responses : inv' = Resume(inv, r)
    /\ UNCHANGED <<vp, he, cfg, cl, dp, cc, cube, invs>>

ClientReleased ==
    /\ inv.pc = "closing"
    /\ inv' = Finish(inv)
    /\ UNCHANGED <<vp, he, cfg, cl, dp, cc, cube, invs>>

Next ==
    \/ HandleQueryTool
    \/ HandleTableTool
    \/ HandleDashboardTool
    \/ HandleDatacubeTool
    \/ UpstreamResponds
    \/ ClientReleased

Spec == Init /\ [][Next]_vars

(***************************************************************************)
(* SpecValidate: validate_path_param applied to every string up to MaxLen  *)
(***************************************************************************)
ValidateInputs == {PyNone} \cup {Str(s) : s \in StringsUpTo(Chars, MaxLen)}

InitValidate ==
    /\ vp \in {[VpIdle EXCEPT !.pc = "input", !.value = v, !.param_name = p] :
                 v \in ValidateInputs, p \in ParamNames}
    /\ he = HeIdle
    /\ cfg = CfgIdle
    /\ inv = InvIdle
    /\ cl = ClIdle
    /\ RestIdle

ValidatePathParam ==
    /\ vp.pc = "input"
    /\ vp' = [vp EXCEPT !.pc = "done",
                        !.out = validate_path_param(vp.value, vp.param_name)]
    /\ UNCHANGED <<he, cfg, inv, cl, dp, cc, cube, invs>>

NextValidate == ValidatePathParam

SpecValidate == InitValidate /\ [][NextValidate]_vars

(***************************************************************************)
(* SpecHttpError: format_http_error applied to two failures that have the  *)
(* same status code                                                        *)
(***************************************************************************)
InitHttpError ==
    /\ he \in {[HeIdle EXCEPT !.pc = "input", !.status = s, !.body1 = b1, !.body2 = b2] :
                 s \in MinStatus..MaxStatus, b1 \in Bodies, b2 \in Bodies}
    /\ vp = VpIdle
    /\ cfg = CfgIdle
    /\ inv = InvIdle
    /\ cl = ClIdle
    /\ RestIdle

FormatHttpError ==
    /\ he.pc = "input"
    /\ he' = [he EXCEPT !.pc = "done",
                        !.out1 = format_http_error(he.status, he.body1),
                        !.out2 = format_http_error(he.status, he.body2)]
    /\ UNCHANGED <<vp, cfg, inv, cl, dp, cc, cube, invs>>

NextHttpError == FormatHttpError

SpecHttpError == InitHttpError /\ [][NextHttpError]_vars

(***************************************************************************)
(* SpecClient: an ImplyClient used directly, in and out of its scope       *)
(***************************************************************************)
IdOps ==
    {"get_query_results", "get_query_status", "cancel_query", "get_table",
     "get_dashboard", "get_data_cube"}

ListOps == {"list_tables", "list_dashboards", "list_data_cubes"}

BodyOps == {"execute_query", "query_data_cube"}

GatewayOps == IdOps \cup ListOps \cup BodyOps

OpValues(op) ==
    IF op \in IdOps THEN IdValues \ {Absent}
    ELSE IF op \in BodyOps THEN {Str(<<"s">>), Str(<<"s", " ", ";">>)}
    ELSE {PyNone}

GatewayCall(op, c, project_id, value) ==
    CASE op = "execute_query" -> execute_query(c, project_id, value, FALSE, PyNone)
      [] op = "get_query_results" -> get_query_results(c, project_id, value)
      [] op = "get_query_status" -> get_query_status(c, project_id, value)
      [] op = "cancel_query" -> cancel_query(c, project_id, value)
      [] op = "list_tables" -> list_tables(c, project_id)
      [] op = "get_table" -> get_table(c, project_id, value)
      [] op = "list_dashboards" -> list_dashboards(c, project_id)
      [] op = "get_dashboard" -> get_dashboard(c, project_id, value)
      [] op = "list_data_cubes" -> list_data_cubes(c, project_id)
      [] op = "get_data_cube" -> get_data_cube(c, project_id, value)
      [] OTHER -> query_data_cube(c, project_id, value, BoolVal(FALSE))

InitClient ==
    /\ cl = ClIdle
    /\ vp = VpIdle
    /\ he = HeIdle
    /\ cfg = CfgIdle
    /\ inv = InvIdle
    /\ RestIdle

ClientEnter ==
    /\ cl' = [cl EXCEPT !.client = AEnter(cl.client)]
    /\ UNCHANGED <<vp, he, cfg, inv, dp, cc, cube, invs>>

ClientExit ==
    /\ cl' = [cl EXCEPT !.client = AExit(cl.client)]
    /\ UNCHANGED <<vp, he, cfg, inv, dp, cc, cube, invs>>

ClientCall ==
    /\ \E op \in GatewayOps : \E v \in OpValues(op) :
          cl' = [cl EXCEPT !.op = op, !.value = v, !.at = cl.client,
                           !.outcome = GatewayCall(op, cl.client, cfg.project_id, v)]
    /\ UNCHANGED <<vp, he, cfg, inv, dp, cc, cube, invs>>

NextClient == ClientEnter \/ ClientExit \/ ClientCall

SpecClient == InitClient /\ [][NextClient]_vars

(***************************************************************************)
(* Properties                                                              *)
(***************************************************************************)
Tokens(text) == {text[k] : k \in 1..Len(text)}

\* C1: validate_path_param rejects every string that is not a non-empty
\* sequence of characters of [A-Za-z0-9_-]: the empty or absent value with
\* "<field> cannot be empty", a non-empty string holding a character outside
\* the class (at any position, the last included) with the invalid-characters
\* error; it never returns such a string.
C1_RejectsEveryUnsafeString ==
    vp.pc = "done" =>
        /\ (vp.value.t = "none" \/ vp.value = Str(<<>>)) =>
              /\ ~vp.out.ok
              /\ vp.out.exc = Exc("ValueError", <<vp.param_name, " cannot be empty">>)
        /\ (vp.value.t = "str" /\ vp.value.s # <<>> /\ ~AllSafe(vp.value.s)) =>
              /\ ~vp.out.ok
              /\ vp.out.exc = Exc("ValueError", InvalidCharsMsg(vp.param_name))

\* C2: for every string of one or more characters of [A-Za-z0-9_-],
\* validate_path_param succeeds and returns exactly the input string,
\* whatever the field name.
C2_SafeStringReturnedUnchanged ==
    (vp.pc = "done" /\ vp.value.t = "str" /\ vp.value.s # <<>> /\ AllSafe(vp.value.s)) =>
        /\ vp.out.ok
        /\ vp.out.exc = NoExc
        /\ vp.out.value = vp.value

C2_Witness ==
    /\ vp.pc = "done"
    /\ vp.value = Str(<<"a", "-", "Z">>)
    /\ vp.param_name = "cube_id"
    /\ vp.out.ok
    /\ vp.out.value.s = <<"a", "-", "Z">>

\* the handler that owns a tool name and the argument its path carries
OwnerOf(name) ==
    CASE name \in QueryToolNames -> "query"
      [] name \in TableToolNames -> "table"
      [] name \in DashboardToolNames -> "dashboard"
      [] name \in DatacubeToolNames -> "datacube"
      [] OTHER -> "none"

IdTools ==
    {"get_query_results", "get_query_status", "cancel_query", "get_table_schema",
     "get_dashboard", "get_data_cube"}

IdArgOf(i) ==
    CASE i.name \in {"get_query_results", "get_query_status", "cancel_query"} ->
            i.args.query_id
      [] i.name = "get_table_schema" -> i.args.table_name
      [] i.name = "get_dashboard" -> i.args.dashboard_id
      [] OTHER -> i.args.cube_id

Owned(i) == i.pc # "idle" /\ i.handler = OwnerOf(i.name)

\* C3: in every gateway operation keyed by an identifier a request is sent
\* only if the identifier passed validation; the identifier segment of the
\* sent path is exactly that value and holds only characters of
\* [A-Za-z0-9_-]; when validation fails nothing is sent.
C3_OnlySafeIdentifiersReachThePath ==
    (Owned(inv) /\ inv.name \in IdTools) =>
        /\ inv.nsent > 0 =>
              /\ IdArgOf(inv).t = "str"
              /\ inv.request.ident = IdArgOf(inv).s
              /\ inv.request.ident # <<>>
              /\ AllSafe(inv.request.ident)
        /\ ~(IdArgOf(inv).t = "str" /\ IdArgOf(inv).s # <<>> /\ AllSafe(IdArgOf(inv).s)) =>
              inv.nsent = 0

C3_Witness ==
    /\ inv.pc = "awaiting"
    /\ inv.name = "get_query_results"
    /\ inv.args.query_id = Str(<<"q", "-", "1", "_", "Z">>)
    /\ inv.nsent = 1
    /\ PathOf(inv.request)
          = <<"/v1/projects/", "proj-1", "/query/sql/statements/", "q", "-", "1", "_", "Z",
              "/results">>

SensitiveStatus(s) == s \in {401, 403, 404, 429} \/ s >= 500

\* C4: for 401, 403, 404, 429 and every code >= 500 the error text depends
\* on the status code only: two failures with the same code and different
\* bodies give the same text, the text never holds the body, and 404 gives
\* exactly "Resource not found.".
C4_SensitiveTextIgnoresBody ==
    (he.pc = "done" /\ SensitiveStatus(he.status)) =>
        /\ he.out1 = he.out2
        /\ he.body1 \notin Tokens(he.out1.text)
        /\ he.body2 \notin Tokens(he.out2.text)
        /\ he.status = 404 => he.out1.text = <<"Resource not found.">>

C4_Witness ==
    /\ he.pc = "done"
    /\ he.status = 503
    /\ he.body1 = "upstream said no"
    /\ he.body2 = "{\"a\": 1}"
    /\ he.out1.text = he.out2.text
    /\ he.out1.text = <<"Server error (", "503", "). Please try again later.">>

\* the text the claim gives each status class
C5_Expected(s, body) ==
    CASE s = 401 ->
            <<"Authentication failed. Please check your API key or access token.">>
      [] s = 403 -> <<"Permission denied. You don't have access to this resource.">>
      [] s = 404 -> <<"Resource not found.">>
      [] s = 429 -> <<"Rate limit exceeded. Please try again later.">>
      [] s >= 500 -> <<"Server error (", ToString(s), "). Please try again later.">>
      [] OTHER ->
            <<"HTTP ", ToString(s), ": ",
              IF JsonLoads(body).ok THEN JsonLoads(body).repr ELSE body>>

\* C5: format_http_error is total on status codes: 401, 403, 404, 429 and
\* >= 500 each give their fixed message (the 5xx one with the code), every
\* other code gives "HTTP {code}: {body}" with the parsed JSON body if it
\* parses and the raw text otherwise; the function never raises.
C5_TotalStatusMapping ==
    he.pc = "done" =>
        /\ ~he.out1.raised
        /\ he.out1.text = C5_Expected(he.status, he.body1)
        /\ ~he.out2.raised
        /\ he.out2.text = C5_Expected(he.status, he.body2)

C5_Witness ==
    /\ he.pc = "done"
    /\ he.status = 400
    /\ he.body1 = "upstream said no"
    /\ he.body2 = "{\"a\": 1}"
    /\ ~he.out1.raised
    /\ he.out1.text = <<"HTTP ", "400", ": ", "upstream said no">>
    /\ he.out2.text = <<"HTTP ", "400", ": ", "{'a': 1}">>

\* C6: in all four handlers an exception that is neither an upstream HTTP
\* status failure nor an input-validation error is answered with the fixed
\* generic "unexpected error" text only.
C6_UnexpectedErrorsAreGeneric ==
    (inv.pc = "done" /\ inv.exc.type \notin {"none", "HTTPStatusError", "ValueError"}) =>
        inv.result = GenericErrorText

RequiredArgTools == IdTools \cup {"execute_sql_query", "execute_async_query", "query_data_cube"}

RequiredArgOf(i) ==
    CASE i.name \in {"execute_sql_query", "execute_async_query"} -> i.args.sql
      [] i.name = "query_data_cube" -> i.args.query_string
      [] OTHER -> IdArgOf(i)

\* what the "is required" text calls the argument
RequiredLabel(name) ==
    CASE name \in {"execute_sql_query", "execute_async_query"} -> "SQL query"
      [] name \in {"get_query_results", "get_query_status", "cancel_query"} -> "query_id"
      [] name = "get_table_schema" -> "table_name"
      [] name = "get_dashboard" -> "dashboard_id"
      [] name = "get_data_cube" -> "cube_id"
      [] OTHER -> "query_string"

AbsentOrEmpty(v) == v.t \in {"absent", "none"} \/ v = Str(<<>>)

\* C7: a tool invoked without its required argument (absent or empty)
\* returns the text "Error: <argument> is required" (the SQL tools name
\* the argument "SQL query"), does not raise and sends no request.
C7_MissingArgumentIsReported ==
    (Owned(inv) /\ inv.name \in RequiredArgTools /\ AbsentOrEmpty(RequiredArgOf(inv))) =>
        /\ inv.pc = "done"
        /\ inv.result = <<"Error: ", RequiredLabel(inv.name), " is required">>
        /\ ~inv.escaped
        /\ inv.nsent = 0
        /\ inv.request = NoRequest

C7_Witness ==
    /\ inv.pc = "done"
    /\ inv.handler = "table"
    /\ inv.name = "get_table_schema"
    /\ inv.args.table_name = Absent
    /\ inv.result = <<"Error: ", "table_name", " is required">>
    /\ inv.nsent = 0

TooLongText(config) ==
    <<"Error: ", "Query too long. Maximum length: ", ToString(config.max_query_length)>>

\* C8: execute_sql_query and execute_async_query answer SQL text longer
\* than max_query_length with the query-too-long text and send nothing;
\* SQL text of at most that length is not rejected by the length check.
C8_LengthCheckPrecedesTheCall ==
    (Owned(inv) /\ inv.name \in {"execute_sql_query", "execute_async_query"}
        /\ inv.args.sql.t = "str" /\ inv.args.sql.s # <<>>) =>
        IF Len(inv.args.sql.s) > cfg.max_query_length
        THEN /\ inv.pc = "done"
             /\ inv.result = TooLongText(cfg)
             /\ inv.nsent = 0
             /\ inv.request = NoRequest
        ELSE /\ inv.nsent = 1
             /\ inv.request.json.query = inv.args.sql
             /\ inv.result # TooLongText(cfg)

C8_Witness ==
    /\ inv.pc = "done"
    /\ inv.handler = "query"
    /\ inv.name = "execute_sql_query"
    /\ Len(inv.args.sql.s) = cfg.max_query_length + 1
    /\ inv.result = <<"Error: ", "Query too long. Maximum length: ",
                      ToString(cfg.max_query_length)>>
    /\ inv.nsent = 0

\* C9: the session a tool invocation acquires is released before the
\* invocation returns, on every exit path; it is open while the invocation
\* waits for the upstream.
C9_SessionReleasedOnEveryExit ==
    /\ inv.pc = "done" => inv.client = "closed"
    /\ inv.pc = "closing" => inv.client = "closed" /\ inv.result = <<>>
    /\ inv.pc = "awaiting" => inv.client = "open"

C9_Witness ==
    /\ inv.pc = "done"
    /\ inv.handler = "datacube"
    /\ inv.name = "query_data_cube"
    /\ inv.exc.type = "ConnectError"
    /\ inv.client = "closed"

\* C10 as stated: an operation invoked before acquisition fails with the
\* not-initialized error, one invoked after release fails with the
\* use-after-release error, and neither sends; requests are sent only
\* between acquisition and release.
C10_OutOfScopeErrorIsLifecycleError ==
    cl.op # "none" =>
        /\ cl.at = "None" =>
              /\ cl.outcome.kind = "raise"
              /\ cl.outcome.exc = Exc("RuntimeError", NotInitializedMsg)
        /\ cl.at = "closed" =>
              /\ cl.outcome.kind = "raise"
              /\ cl.outcome.exc = Exc("RuntimeError", ClientClosedMsg)
        /\ cl.outcome.kind = "send" => cl.at = "open"

ParamOf(op) ==
    CASE op \in {"get_query_results", "get_query_status", "cancel_query"} -> "query_id"
      [] op = "get_table" -> "table_name"
      [] op = "get_dashboard" -> "dashboard_id"
      [] OTHER -> "cube_id"

\* the validator rejects the identifier of an identifier-keyed operation
IdRejected(op, v) == op \in IdOps /\ ~validate_path_param(v, ParamOf(op)).ok

\* the identifier passes the validator and leaves a non-printable character
\* in the path (a trailing newline)
UrlRejected(op, v) ==
    /\ op \in IdOps
    /\ ~IdRejected(op, v)
    /\ \E k \in DOMAIN v.s : v.s[k] \in NonPrintableAscii

\* C10 amended: an operation invoked before acquisition or after release
\* fails and sends nothing; it fails with the validator's error when it is
\* keyed by an identifier the validator rejects (validation comes first),
\* and otherwise with the not-initialized error before acquisition and,
\* after release, with the closed-client error, or with httpx's InvalidURL
\* when the accepted identifier holds a non-printable character; requests
\* are sent only between acquisition and release.
C10_OutOfScopeCallFailsAndSendsNothing ==
    cl.op # "none" =>
        /\ cl.at # "open" =>
              /\ cl.outcome.kind = "raise"
              /\ cl.outcome.request = NoRequest
              /\ cl.outcome.exc =
                    IF IdRejected(cl.op, cl.value)
                    THEN validate_path_param(cl.value, ParamOf(cl.op)).exc
                    ELSE IF cl.at = "None" THEN Exc("RuntimeError", NotInitializedMsg)
                    ELSE IF UrlRejected(cl.op, cl.value)
                    THEN Exc("InvalidURL",
                             <<"Invalid non-printable ASCII character in URL, ", "'\\n'",
                               " at position ", cl.outcome.exc.msg[4], ".">>)
                    ELSE Exc("RuntimeError", ClientClosedMsg)
        /\ cl.outcome.kind = "send" => cl.at = "open"

C10_Witness ==
    /\ cl.at = "None"
    /\ cl.op = "get_table"
    /\ cl.value = Str(<<"a">>)
    /\ cl.outcome.kind = "raise"
    /\ cl.outcome.exc.msg = NotInitializedMsg

UpstreamFailureTypes == {"HTTPStatusError"} \cup TransportErrors

ErrorHeads == {"Error: ", GenericErrorText[1]}

\* C11: no retries: an invocation sends at most one upstream request; after
\* a failed upstream call (non-2xx status, 3xx redirect, timeout or
\* transport error) it has sent exactly that one request, it only releases
\* its client and finishes, and its result reports the failure once.
C11_NoRetries ==
    /\ inv.nsent <= 1
    /\ (inv.pc # "idle" /\ inv.exc.type \in UpstreamFailureTypes) =>
          /\ inv.pc \in {"closing", "done"}
          /\ inv.nsent = 1
          /\ inv.pc = "done" =>
                Cardinality({k \in 1..Len(inv.result) : inv.result[k] \in ErrorHeads}) = 1

C11_Witness ==
    /\ inv.pc = "done"
    /\ inv.handler = "query"
    /\ inv.name = "execute_sql_query"
    /\ inv.exc.type = "HTTPStatusError"
    /\ inv.exc.status = 302
    /\ inv.nsent = 1
    /\ inv.result[1] = "Error: "

(***************************************************************************)
(* server.py: the dispatcher.  call_tool exists once the module server.py  *)
(* has been imported, and its `from ... import` lines need every name they *)
(* list to be a top-level name of the module they list it from.            *)
(***************************************************************************)
\* the top-level names each module of tools/ binds
ModuleDefines(module) ==
    CASE module = "query_tools" ->
            {"Any", "httpx", "Tool", "TextContent", "ImplyClient", "get_config",
             "format_http_error", "format_json", "validate_sql", "get_query_tools",
             "handle_query_tool"}
      [] module = "table_tools" ->
            {"Any", "httpx", "Tool", "TextContent", "ImplyClient", "get_config",
             "format_http_error", "format_json", "get_table_tools", "handle_table_tool"}
      [] module = "dashboard_tools" ->
            {"logging", "Any", "httpx", "Tool", "TextContent", "ImplyClient",
             "get_config", "format_http_error", "format_json", "logger",
             "DASHBOARD_TOOL_NAMES", "get_dashboard_tools", "handle_dashboard_tool"}
      [] OTHER ->
            {"logging", "Any", "httpx", "Tool", "TextContent", "ImplyClient",
             "get_config", "format_http_error", "format_json", "MAX_DISPLAY_ROWS",
             "logger", "DATACUBE_TOOL_NAMES", "get_datacube_tools",
             "handle_datacube_tool"}

\* server.py lines 11-14, in order: the module and the names taken from it
ServerImportLines ==
    << [module |-> "query_tools",
        names |-> <<"get_query_tools", "handle_query_tool", "QUERY_TOOL_NAMES">>],
       [module |-> "table_tools",
        names |-> <<"get_table_tools", "handle_table_tool", "TABLE_TOOL_NAMES">>],
       [module |-> "dashboard_tools",
        names |-> <<"get_dashboard_tools", "handle_dashboard_tool",
                    "DASHBOARD_TOOL_NAMES">>],
       [module |-> "datacube_tools",
        names |-> <<"get_datacube_tools", "handle_datacube_tool",
                    "DATACUBE_TOOL_NAMES">>] >>

\* the names of an import line that its module does not bind
MissingNames(line) ==
    {k \in 1..Len(line.names) : line.names[k] \notin ModuleDefines(line.module)}

\* str(e) of the ImportError, up to the file path Python appends
ImportErrorMsg(module, name) ==
    <<"cannot import name '", name, "' from '", "imply_druid_mcp.tools.", module, "'">>

\* importing server.py: the first import line with a name that is not bound
\* raises ImportError
ImportServer ==
    LET bad == {l \in 1..Len(ServerImportLines) : MissingNames(ServerImportLines[l]) # {}}
    IN  IF bad = {} THEN [ok |-> TRUE, exc |-> NoExc]
        ELSE LET l == CHOOSE x \in bad : \A y \in bad : x <= y
                 line == ServerImportLines[l]
                 k == CHOOSE x \in MissingNames(line) : \A y \in MissingNames(line) : x <= y
             IN  [ok |-> FALSE,
                  exc |-> Exc("ImportError", ImportErrorMsg(line.module, line.names[k]))]

\* the *_TOOL_NAMES name that server.py takes from each module of tools/
ToolNamesName(module) ==
    CASE module = "query_tools" -> "QUERY_TOOL_NAMES"
      [] module = "table_tools" -> "TABLE_TOOL_NAMES"
      [] module = "dashboard_tools" -> "DASHBOARD_TOOL_NAMES"
      [] OTHER -> "DATACUBE_TOOL_NAMES"

NameErrorMsg(name) == <<"name '", name, "' is not defined">>

\* reading a module's *_TOOL_NAMES in call_tool: dashboard_tools.py and
\* datacube_tools.py bind one; query_tools.py and table_tools.py bind none,
\* and reading a name that is not bound raises NameError
ToolNamesConstant(module) ==
    IF ToolNamesName(module) \notin ModuleDefines(module)
    THEN [bound |-> FALSE, names |-> {},
          exc |-> Exc("NameError", NameErrorMsg(ToolNamesName(module)))]
    ELSE [bound |-> TRUE, exc |-> NoExc,
          names |-> IF module = "dashboard_tools" THEN DashboardToolNames
                    ELSE DatacubeToolNames]

UnknownToolText(name) == <<"Error: Unknown tool '", name, "'">>

RouteTo(handler) == [kind |-> "route", handler |-> handler, text |-> <<>>, exc |-> NoExc]

RouteRaise(e) == [kind |-> "raise", handler |-> "none", text |-> <<>>, exc |-> e]

\* call_tool(name, arguments): the if/elif chain reads the four constants in
\* order until one holds the name; the outcome is the handler the name is
\* routed to, the unknown-tool text, or the NameError of the first read of
\* a constant that is not bound
call_tool(name) ==
    LET q == ToolNamesConstant("query_tools")
        t == ToolNamesConstant("table_tools")
        d == ToolNamesConstant("dashboard_tools")
        c == ToolNamesConstant("datacube_tools")
    IN  IF ~q.bound THEN RouteRaise(q.exc)
        ELSE IF name \in q.names THEN RouteTo("query")
        ELSE IF ~t.bound THEN RouteRaise(t.exc)
        ELSE IF name \in t.names THEN RouteTo("table")
        ELSE IF ~d.bound THEN RouteRaise(d.exc)
        ELSE IF name \in d.names THEN RouteTo("dashboard")
        ELSE IF ~c.bound THEN RouteRaise(c.exc)
        ELSE IF name \in c.names THEN RouteTo("datacube")
        ELSE [kind |-> "text", handler |-> "none", text |-> UnknownToolText(name),
              exc |-> NoExc]

\* a tool call arrives at the dispatcher of server.py: the module is
\* imported, then call_tool routes the name
Dispatch(name, args, config) ==
    LET d == [DpIdle EXCEPT !.name = name, !.args = args]
        r == call_tool(name)
    IN  IF ~ImportServer.ok
        THEN [dp |-> [d EXCEPT !.pc = "done", !.exc = ImportServer.exc], inv |-> InvIdle]
        ELSE IF r.kind = "raise"
        THEN [dp |-> [d EXCEPT !.pc = "done", !.exc = r.exc], inv |-> InvIdle]
        ELSE IF r.kind = "route"
        THEN [dp |-> [d EXCEPT !.pc = "routed", !.handler = r.handler],
              inv |-> Begin(r.handler, name, args, config)]
        ELSE [dp |-> [d EXCEPT !.pc = "done", !.result = r.text], inv |-> InvIdle]

InitDispatch ==
    /\ cfg \in Configs
    /\ dp = DpIdle
    /\ inv = InvIdle
    /\ vp = VpIdle
    /\ he = HeIdle
    /\ cl = ClIdle
    /\ cc = CcIdle
    /\ cube = CubeIdle
    /\ invs = InvsIdle

CallTool ==
    /\ dp.pc = "idle"
    /\ \E name \in CallNames : \E args \in ArgsFor(name) :
          /\ dp' = Dispatch(name, args, cfg).dp
          /\ inv' = Dispatch(name, args, cfg).inv
    /\ UNCHANGED <<vp, he, cfg, cl, cc, cube, invs>>

NextDispatch == CallTool

SpecDispatch == InitDispatch /\ [][NextDispatch]_vars

\* C12: dispatching a name that no registry declares returns the text
\* "Unknown tool '<name>'"; it does not raise, calls no handler, acquires no
\* session and sends no request.
C12_UnknownNameGetsText ==
    (dp.pc # "idle" /\ dp.name \notin ToolNames) =>
        /\ dp.pc = "done"
        /\ dp.exc = NoExc
        /\ "Unknown tool '" \in {dp.result[k] : k \in 1..Len(dp.result)}
        /\ dp.name \in {dp.result[k] : k \in 1..Len(dp.result)}
        /\ dp.handler = "none"
        /\ inv = InvIdle

RegistryNames(registry) ==
    CASE registry = "query" -> QueryToolNames
      [] registry = "table" -> TableToolNames
      [] registry = "dashboard" -> DashboardToolNames
      [] OTHER -> DatacubeToolNames

\* C13: each of the twelve tool names is declared by exactly one registry,
\* the dispatcher routes it to that registry's handler and to no other, and
\* that handler does not answer it with its own unknown-tool error.
C13_EveryToolRoutedToItsOwner ==
    /\ Cardinality(ToolNames) = 12
    /\ \A n \in ToolNames : Cardinality({g \in Handlers : n \in RegistryNames(g)}) = 1
    /\ (dp.pc # "idle" /\ dp.name \in ToolNames) =>
          /\ dp.exc = NoExc
          /\ dp.handler = OwnerOf(dp.name)
          /\ inv.handler = OwnerOf(dp.name)
          /\ inv.exc # UnknownTool(dp.name)

\* C14: for every tool name a registry owns and every argument mapping the
\* handler returns a result of one text block that is not empty;
\* input-validation errors (missing argument, over-length query, empty or
\* unsafe path parameter) and upstream HTTP errors come back as an
\* "Error: ..." text and never leave the handler as an exception.
C14_HandlerTotality ==
    Owned(inv) =>
        /\ inv.pc \in {"awaiting", "closing", "done"}
        /\ ~inv.escaped
        /\ inv.pc = "done" =>
              /\ Len(inv.result) >= 1
              /\ inv.exc.type = "ValueError" => inv.result = <<"Error: ">> \o inv.exc.msg
              /\ inv.exc.type = "HTTPStatusError" =>
                    /\ inv.result[1] = "Error: "
                    /\ Len(inv.result) >= 2

C14_Witness ==
    /\ inv.pc = "done"
    /\ inv.handler = "query"
    /\ inv.name = "cancel_query"
    /\ inv.args.query_id = Str(<<".", ".", "/", "e", "t", "c">>)
    /\ inv.exc.type = "ValueError"
    /\ inv.result = <<"Error: ", "query_id", " contains invalid characters. ",
                      "Only alphanumeric characters, hyphens, and underscores are allowed.">>
    /\ ~inv.escaped

(***************************************************************************)
(* SpecConcurrent: the process while the host runs NumInvocations tool     *)
(* invocations concurrently on one event loop.  What the invocations could *)
(* share is the module-level `_config` of config.py (cfg) and the httpx     *)
(* clients alive in the process (invs.sessions); what each keeps to itself *)
(* is its coroutine frame (invs.frames[k]): the local `config`, the local  *)
(* `client` (a reference into the sessions) and the handler's position.    *)
(* An invocation suspends at its awaited upstream call and again while its *)
(* client closes; there the others, and the host, may run.                 *)
(***************************************************************************)
\* the configurations the environment or the host provides
ConcurrentConfigs ==
    {CfgIdle,
     [project_id |-> "proj-2", max_query_length |-> MaxConfigLen,
      default_query_timeout_ms |-> DefaultQueryTimeoutMs]}

\* the tool calls the host makes: calls of all four handlers, one of them
\* with a required argument missing
ConcurrentCalls ==
    {[handler |-> "query", name |-> "execute_sql_query",
      args |-> [NoArgs EXCEPT !.sql = Str(<<"s", "s">>)]],
     [handler |-> "table", name |-> "get_table_schema", args |-> NoArgs],
     [handler |-> "dashboard", name |-> "get_dashboard",
      args |-> [NoArgs EXCEPT !.dashboard_id = Str(<<"a">>)]],
     [handler |-> "datacube", name |-> "list_data_cubes", args |-> NoArgs]}

ConcurrentResponses ==
    {r \in Responses :
        \/ r.kind = "error" /\ r.error = "ReadTimeout"
        \/ r.kind = "response" /\ r.status = 200 /\ r.body = "{}"
        \/ r.kind = "response" /\ r.status = 404 /\ r.body = "upstream said no"}

\* the state of the process: `_config` and the invocations
Process(global, m) == [cfg |-> global, invs |-> m]

\* a client that the module creates once and every invocation uses
NewSession_Shared(sessions) == 1

\* __aenter__: `self._client = httpx.AsyncClient(...)`, a new client of the
\* process, named by its place among the clients created so far
NewSession(sessions) == Len(sessions) + 1

\* the clients of the process once client s is in state c
SetSession(sessions, s, c) ==
    [x \in 1..(IF s > Len(sessions) THEN s ELSE Len(sessions)) |->
        IF x = s THEN c ELSE sessions[x]]

\* the invocation record of a frame, its client read through the reference
Deref(p, k) ==
    [p.invs.frames[k].i EXCEPT !.client = p.invs.sessions[p.invs.frames[k].session]]

\* invocation k enters its handler: `config = get_config()`, ImplyClient(config)
\* and __aenter__, then the body up to its first await; validate_sql's own
\* get_config() runs in the same step, with no suspension before it
StepBegin(p, k, handler, name, args, loaded) ==
    LET config == get_config(p.cfg, loaded)
        s == NewSession(p.invs.sessions)
        i == Begin(handler, name, args, config)
    IN  [cfg |-> config,
         invs |-> [sessions |-> SetSession(p.invs.sessions, s, i.client),
                   frames |-> [p.invs.frames EXCEPT
                                 ![k] = [i |-> i, config |-> config, session |-> s,
                                         resp |-> NoResponse]]]]

\* invocation k is resumed with the upstream's answer and runs to the
\* release of its client
StepResume(p, k, r) ==
    LET i == Resume(Deref(p, k), r)
    IN  [cfg |-> p.cfg,
         invs |-> [sessions |-> SetSession(p.invs.sessions, p.invs.frames[k].session,
                                           i.client),
                   frames |-> [p.invs.frames EXCEPT ![k].i = i, ![k].resp = r]]]

\* invocation k, its client released, returns or runs its except clause
StepFinish(p, k) ==
    LET i == Finish(Deref(p, k))
    IN  [cfg |-> p.cfg,
         invs |-> [sessions |-> SetSession(p.invs.sessions, p.invs.frames[k].session,
                                           i.client),
                   frames |-> [p.invs.frames EXCEPT ![k].i = i]]]

\* the module config.py has been imported: `_config = None`
InitConcurrent ==
    /\ cfg = NoConfig
    /\ invs = InvsIdle
    /\ inv = InvIdle
    /\ vp = VpIdle
    /\ he = HeIdle
    /\ cl = ClIdle
    /\ dp = DpIdle
    /\ cc = CcIdle
    /\ cube = CubeIdle

\* create_server(): `config = get_config()` loads the configuration from
\* the environment unless one is set already
CreateServer ==
    /\ \E loaded \in ConcurrentConfigs : cfg' = get_config(cfg, loaded)
    /\ UNCHANGED <<vp, he, inv, cl, dp, cc, cube, invs>>

\* the host calls set_config(config)
SetConfig ==
    /\ \E config \in ConcurrentConfigs : cfg' = set_config(config)
    /\ UNCHANGED <<vp, he, inv, cl, dp, cc, cube, invs>>

\* the host starts an invocation by calling a handler; the handler's first
\* statement, `config = get_config()`, loads the configuration from the
\* environment when neither create_server nor set_config has set it yet
ConcurrentBegin ==
    /\ \E k \in 1..NumInvocations :
          /\ invs.frames[k].i.pc = "idle"
          /\ \E call \in ConcurrentCalls : \E loaded \in ConcurrentConfigs :
                LET p == StepBegin(Process(cfg, invs), k, call.handler, call.name,
                                   call.args, loaded)
                IN  /\ cfg' = p.cfg
                    /\ invs' = p.invs
    /\ UNCHANGED <<vp, he, inv, cl, dp, cc, cube>>

ConcurrentRespond ==
    /\ \E k \in 1..NumInvocations :
          /\ invs.frames[k].i.pc = "awaiting"
          /\ \E r \in ConcurrentResponses :
                LET p == StepResume(Process(cfg, invs), k, r)
                IN  /\ cfg' = p.cfg
                    /\ invs' = p.invs
    /\ UNCHANGED <<vp, he, inv, cl, dp, cc, cube>>

ConcurrentReturn ==
    /\ \E k \in 1..NumInvocations :
          /\ invs.frames[k].i.pc = "closing"
          /\ LET p == StepFinish(Process(cfg, invs), k)
             IN  /\ cfg' = p.cfg
                 /\ invs' = p.invs
    /\ UNCHANGED <<vp, he, inv, cl, dp, cc, cube>>

NextConcurrent ==
    \/ CreateServer
    \/ SetConfig
    \/ ConcurrentBegin
    \/ ConcurrentRespond
    \/ ConcurrentReturn

SpecConcurrent == InitConcurrent /\ [][NextConcurrent]_vars

Begun(k) == invs.frames[k].i.pc # "idle"

\* invocation k run alone: the same call, in a process that holds no other
\* invocation and no other client and whose configuration is the one k
\* found or loaded at its entry, against the upstream answer k received
Alone(k) ==
    LET f == invs.frames[k]
        p0 == Process(f.config, InvsIdle)
        p1 == StepBegin(p0, k, f.i.handler, f.i.name, f.i.args, f.config)
        p2 == IF f.resp = NoResponse THEN p1 ELSE StepResume(p1, k, f.resp)
        p3 == IF f.i.pc = "done" /\ p2.invs.frames[k].i.pc = "closing"
              THEN StepFinish(p2, k) ELSE p2
    IN  p3.invs.frames[k].i

\* the text a finished invocation of ConcurrentCalls returns, read off the
\* handlers' texts: it depends on the call, on the configuration the
\* invocation found at its entry and on the upstream answer it received
ExpectedAlone(f) ==
    CASE f.i.name = "get_table_schema" -> <<"Error: ", "table_name", " is required">>
      [] f.i.name = "execute_sql_query"
         /\ Len(f.i.args.sql.s) > f.config.max_query_length ->
            <<"Error: ", "Query too long. Maximum length: ",
              ToString(f.config.max_query_length)>>
      [] f.resp.kind = "error" ->
            IF f.i.handler = "query" THEN <<"Error: ", f.resp.body>>
            ELSE <<"Error: An unexpected error occurred while processing the request.">>
      [] f.resp.status = 404 -> <<"Error: ", "Resource not found.">>
      [] f.i.name = "execute_sql_query" -> <<"Query executed successfully:\n\n", "{}">>
      [] f.i.name = "get_dashboard" -> <<"Dashboard details for '", "a", "':\n\n", "{}">>
      [] OTHER -> <<"No data cubes found in the project.">>

\* the sessions and results of the invocations in one state of the process
IndependentState ==
    \A k \in 1..NumInvocations :
        LET f == invs.frames[k]
        IN  /\ ~Begun(k) => f = FrameIdle
            /\ Begun(k) =>
                  /\ f.session \in DOMAIN invs.sessions
                  /\ \A j \in 1..NumInvocations \ {k} :
                        Begun(j) => invs.frames[j].session # f.session
                  /\ invs.sessions[f.session] =
                        (IF f.i.pc = "awaiting" THEN "open" ELSE "closed")
                  /\ f.i.client = invs.sessions[f.session]
                  /\ f.i.request.method # "none" =>
                        f.i.request.prefix[2] = f.config.project_id
                  /\ f.i = Alone(k)
                  /\ f.i.pc = "done" => f.i.result = ExpectedAlone(f)

\* a step of invocation k changes no other invocation's frame or client
OwnFrameOnly ==
    \A k \in 1..NumInvocations :
        invs'.frames[k] # invs.frames[k] =>
            \A j \in 1..NumInvocations \ {k} :
                /\ invs'.frames[j] = invs.frames[j]
                /\ Begun(j) =>
                      invs'.sessions[invs.frames[j].session]
                          = invs.sessions[invs.frames[j].session]

\* a step of an invocation leaves the process-wide configuration as it was
ConfigurationOnlyRead == invs' # invs => cfg' = cfg

\* a step of an invocation writes the process-wide configuration only when
\* it finds it unset, and never changes one that is set
ConfigurationWrittenOnlyWhenUnset == invs' # invs => (cfg' = cfg \/ cfg = NoConfig)

MaxKeyLen == 2

UpperAlphabet == <<"A","B","C","D","E","F","G","H","I","J","K","L","M",
                   "N","O","P","Q","R","S","T","U","V","W","X","Y","Z">>

LowerAlphabet == <<"a","b","c","d","e","f","g","h","i","j","k","l","m",
                   "n","o","p","q","r","s","t","u","v","w","x","y","z">>

\* str.lower() on the ASCII strings the model uses
Lower(s) ==
    [k \in 1..Len(s) |->
        IF \E n \in 1..Len(UpperAlphabet) : UpperAlphabet[n] = s[k]
        THEN LowerAlphabet[CHOOSE n \in 1..Len(UpperAlphabet) : UpperAlphabet[n] = s[k]]
        ELSE s[k]]

AllowedProviders == {<<"a", "w", "s">>, <<"g", "c", "p">>, <<"a", "z", "u", "r", "e">>}

CloudProviderMsg == <<"cloud_provider must be one of ['aws', 'gcp', 'azure']">>

NoCredentialsMsg == <<"Either api_key or access_token must be provided">>

NoAuthMsg == <<"No authentication credentials available">>

Organization == <<"o", "r", "g">>

\* repr() of a str of plain characters, and of None
PyRepr(v) == IF v.t = "none" THEN <<"None">> ELSE <<"'">> \o v.s \o <<"'">>

\* the characters of a piece of the repr
Spell(piece) ==
    CASE piece = "None" -> <<"N", "o", "n", "e">>
      [] piece = "{'organization': '" ->
            <<"{", "'", "o", "r", "g", "a", "n", "i", "z", "a", "t", "i", "o", "n", "'", ":",
              " ", "'">>
      [] piece = "', 'project_id': '" ->
            <<"'", ",", " ", "'", "p", "r", "o", "j", "e", "c", "t", "_", "i", "d", "'", ":",
              " ", "'">>
      [] piece = "', 'api_key': " ->
            <<"'", ",", " ", "'", "a", "p", "i", "_", "k", "e", "y", "'", ":", " ">>
      [] piece = ", 'access_token': " ->
            <<",", " ", "'", "a", "c", "c", "e", "s", "s", "_", "t", "o", "k", "e", "n", "'",
              ":", " ">>
      [] piece = ", 'cloud_provider': '" ->
            <<",", " ", "'", "c", "l", "o", "u", "d", "_", "p", "r", "o", "v", "i", "d", "e",
              "r", "'", ":", " ", "'">>
      [] OTHER -> <<piece>>

RECURSIVE SpellAll(_)
SpellAll(pieces) ==
    IF pieces = <<>> THEN <<>> ELSE Spell(Head(pieces)) \o SpellAll(Tail(pieces))

\* repr() of the keyword arguments ImplyConfig is constructed with
InputRepr(api_key, access_token, cloud_provider) ==
    SpellAll(<<"{'organization': '">> \o Organization
             \o <<"', 'project_id': '", "p", "r", "o", "j", "-", "1", "', 'api_key': ">>
             \o PyRepr(api_key) \o <<", 'access_token': ">> \o PyRepr(access_token)
             \o <<", 'cloud_provider': '">> \o cloud_provider \o <<"'", "}">>)

\* pydantic shows an input of more than 50 characters as its first 25 and
\* its last 24 characters around "..."
TruncateInput(chars) ==
    IF Len(chars) > 50
    THEN SubSeq(chars, 1, 25) \o <<"...">> \o SubSeq(chars, Len(chars) - 23, Len(chars))
    ELSE chars

\* pydantic wraps a ValueError raised by a field validator (loc is the
\* field) or by model_post_init (no loc) in a ValidationError
ValidationError(loc, msg, input, input_type) ==
    Exc("ValidationError",
        <<"1 validation error for ImplyConfig\n">> \o loc \o <<"  Value error, ">> \o msg
        \o <<" [type=value_error, input_value=">> \o TruncateInput(input)
        \o <<", input_type=", input_type,
             "]\n    For further information visit https://errors.pydantic.dev/2.13/v/value_error">>)

\* the field validator of cloud_provider
validate_cloud_provider(v) ==
    IF Lower(v) \notin AllowedProviders
    THEN [ok |-> FALSE, value |-> v, exc |-> Exc("ValueError", CloudProviderMsg)]
    ELSE [ok |-> TRUE, value |-> Lower(v), exc |-> NoExc]

\* `if not self.api_key and not self.access_token: raise ValueError(...)`
model_post_init(api_key, access_token) ==
    IF Falsy(api_key) /\ Falsy(access_token)
    THEN Exc("ValueError", NoCredentialsMsg)
    ELSE NoExc

\* ImplyConfig(...): the field validators, then model_post_init
ImplyConfig(api_key, access_token, cloud_provider) ==
    LET p == validate_cloud_provider(cloud_provider)
        c == [CcIdle EXCEPT !.api_key = api_key, !.access_token = access_token,
                            !.cloud_provider = p.value]
    IN  IF ~p.ok
        THEN [c EXCEPT !.pc = "failed",
                       !.exc = ValidationError(<<"cloud_provider\n">>, p.exc.msg,
                                               <<"'">> \o cloud_provider \o <<"'">>, "str")]
        ELSE IF model_post_init(api_key, access_token) # NoExc
        THEN [c EXCEPT !.pc = "failed",
                       !.exc = ValidationError(<<>>, model_post_init(api_key, access_token).msg,
                                               InputRepr(api_key, access_token, cloud_provider),
                                               "dict")]
        ELSE [c EXCEPT !.pc = "constructed"]

Header(name, value) == [name |-> name, value |-> value]

\* an auth_header that looks at the access token first
auth_header_TokenFirst(c) ==
    IF ~Falsy(c.access_token)
    THEN [raised |-> FALSE, exc |-> NoExc,
          headers |-> <<Header("Authorization", <<"Bearer ">> \o c.access_token.s)>>]
    ELSE IF ~Falsy(c.api_key)
    THEN [raised |-> FALSE, exc |-> NoExc,
          headers |-> <<Header("Authorization", <<"Basic ">> \o c.api_key.s)>>]
    ELSE [raised |-> TRUE, exc |-> Exc("ValueError", NoAuthMsg), headers |-> <<>>]

\* the auth_header property
auth_header(c) ==
    IF ~Falsy(c.api_key)
    THEN [raised |-> FALSE, exc |-> NoExc,
          headers |-> <<Header("Authorization", <<"Basic ">> \o c.api_key.s)>>]
    ELSE IF ~Falsy(c.access_token)
    THEN [raised |-> FALSE, exc |-> NoExc,
          headers |-> <<Header("Authorization", <<"Bearer ">> \o c.access_token.s)>>]
    ELSE [raised |-> TRUE, exc |-> Exc("ValueError", NoAuthMsg), headers |-> <<>>]

\* ImplyClient.__init__: {**config.auth_header, "Content-Type": "application/json"}
ImplyClientInit(c) ==
    IF auth_header(c).raised
    THEN [c EXCEPT !.pc = "client_failed", !.exc = auth_header(c).exc]
    ELSE [c EXCEPT !.pc = "client",
                   !.headers = auth_header(c).headers
                               \o <<Header("Content-Type", <<"application/json">>)>>]

ApiKeyValues ==
    {PyNone, Str(<<>>)} \cup {Str(s) : s \in StringsUpTo({"k", "="}, MaxKeyLen)}

AccessTokenValues ==
    {PyNone, Str(<<>>)} \cup {Str(s) : s \in StringsUpTo({"t", "."}, MaxKeyLen)}

CloudProviderValues ==
    {<<"a", "w", "s">>, <<"G", "C", "P">>, <<"A", "z", "u", "r", "e">>,
     <<"o", "n", "p", "r", "e", "m">>}

InitConfig ==
    /\ cc = CcIdle
    /\ cfg = CfgIdle
    /\ inv = InvIdle
    /\ vp = VpIdle
    /\ he = HeIdle
    /\ cl = ClIdle
    /\ dp = DpIdle
    /\ cube = CubeIdle
    /\ invs = InvsIdle

ConstructConfig ==
    /\ cc.pc = "idle"
    /\ \E k \in ApiKeyValues : \E a \in AccessTokenValues : \E p \in CloudProviderValues :
          cc' = ImplyConfig(k, a, p)
    /\ UNCHANGED <<vp, he, cfg, inv, cl, dp, cube, invs>>

NewClient ==
    /\ cc.pc = "constructed"
    /\ cc' = ImplyClientInit(cc)
    /\ UNCHANGED <<vp, he, cfg, inv, cl, dp, cube, invs>>

NextConfig == ConstructConfig \/ NewClient

SpecConfig == InitConfig /\ [][NextConfig]_vars

\* a credential counts as set when it is a non-empty string
IsSet(v) == ~Falsy(v)

AuthorizationValues == {cc.headers[k].value : k \in {j \in DOMAIN cc.headers : cc.headers[j].name = "Authorization"}}

\* C17: a configuration with neither credential set is never constructed
\* (construction fails with a ValidationError, a ValueError, that holds the
\* message of model_post_init when the cloud provider is valid); the
\* headers of a client built from a constructed configuration hold exactly
\* one Authorization value: Basic
\* <key> whenever the api-key is set (the token, set or not, is ignored),
\* Bearer <token> when only the token is set; building the headers of a
\* constructed configuration never fails.
C17_CredentialHandling ==
    /\ (cc.pc # "idle" /\ ~IsSet(cc.api_key) /\ ~IsSet(cc.access_token)) =>
          /\ cc.pc = "failed"
          /\ cc.exc.type = "ValidationError"
          /\ (cc.cloud_provider \in AllowedProviders =>
                SubSeq(cc.exc.msg, 2, 3) = <<"  Value error, ">> \o NoCredentialsMsg)
    /\ cc.pc = "failed" => cc.headers = <<>>
    /\ cc.pc # "client_failed"
    /\ cc.pc = "client" =>
          /\ Cardinality({j \in DOMAIN cc.headers : cc.headers[j].name = "Authorization"}) = 1
          /\ IsSet(cc.api_key) =>
                AuthorizationValues = {<<"Basic ">> \o cc.api_key.s}
          /\ (~IsSet(cc.api_key) /\ IsSet(cc.access_token)) =>
                AuthorizationValues = {<<"Bearer ">> \o cc.access_token.s}

C17_Witness ==
    /\ cc.pc = "client"
    /\ cc.api_key = Str(<<"k", "=">>)
    /\ cc.access_token = Str(<<"t", ".">>)
    /\ cc.headers[1] = Header("Authorization", <<"Basic ", "k", "=">>)

(***************************************************************************)
(* SpecCube: the formatting of a query_data_cube response                  *)
(***************************************************************************)
\* most rows of a response's `data` array
MaxDataLen == 105

\* most columns of a response
MaxColumns == 2

\* the header row of a response of w columns
HeaderRow(w) == [c \in 1..w |-> "col" \o ToString(c)]

\* its two type rows
TypeRows(w) ==
    <<[c \in 1..w |-> "STRING" \o ToString(c)], [c \in 1..w |-> "dimension" \o ToString(c)]>>

\* the cells of its k-th data row
DataRow(k, w) == [c \in 1..w |-> ToString(1000 * (c - 1) + k)]

\* a response's `data` of n rows and w columns: headers, type rows, data
CubeData(n, w) ==
    [r \in 1..n |->
        IF r = 1 THEN HeaderRow(w)
        ELSE IF r <= 3 THEN TypeRows(w)[r - 1]
        ELSE DataRow(r - 3, w)]

InitCube ==
    /\ \E h \in BOOLEAN : \E n \in 0..MaxDataLen : \E w \in 1..MaxColumns :
          cube = [pc |-> "input", has_data |-> h,
                  data |-> IF h THEN CubeData(n, w) ELSE <<>>, out |-> <<>>]
    /\ cfg = CfgIdle
    /\ inv = InvIdle
    /\ vp = VpIdle
    /\ he = HeIdle
    /\ cl = ClIdle
    /\ dp = DpIdle
    /\ cc = CcIdle
    /\ invs = InvsIdle

FormatCube ==
    /\ cube.pc = "input"
    /\ cube' = [cube EXCEPT !.pc = "done",
                            !.out = query_data_cube_output(cube.has_data, cube.data)]
    /\ UNCHANGED <<vp, he, cfg, inv, cl, dp, cc, invs>>

NextCube == FormatCube

SpecCube == InitCube /\ [][NextCube]_vars

\* cells of the two type rows of the formatted response
MetaCells == UNION {{cube.data[r][c] : c \in DOMAIN cube.data[r]} : r \in {2, 3}}

\* tokens of the output before the first data row, for a response of w columns
HeaderLen(w) == 2 * w + 4

CubeWidth == Len(cube.data[1])

\* C18: row 0 is the headers, rows 1-2 are type metadata, rows 3+ are data:
\* a response with no `data` field or with at most 3 rows yields the "no
\* results" text; a response with n >= 4 rows reports n - 3 rows under the
\* headers of row 0, the first rendered row is row 3 pipe-joined, no cell of
\* the type rows is rendered, and with exactly 4 rows that one row is all
\* that follows the headers.
C18_HeaderTypeRowsThenData ==
    cube.pc = "done" =>
        /\ (~cube.has_data \/ Len(cube.data) <= 3) =>
              cube.out = <<"Query returned no results.">>
        /\ (cube.has_data /\ Len(cube.data) >= 4) =>
              /\ SubSeq(cube.out, 1, 4)
                    = <<"Query Results (", ToString(Len(cube.data) - 3),
                        " rows):\n\n", "Columns: ">>
              /\ SubSeq(cube.out, 5, HeaderLen(CubeWidth))
                    = Join(cube.data[1], ", ") \o <<"\n\n">>
              /\ SubSeq(cube.out, HeaderLen(CubeWidth) + 1, HeaderLen(CubeWidth) + 2 * CubeWidth)
                    = Join(cube.data[4], " | ") \o <<"\n">>
              /\ \A p \in (HeaderLen(CubeWidth) + 1)..Len(cube.out) :
                    cube.out[p] \notin MetaCells
              /\ Len(cube.data) = 4 =>
                    Len(cube.out) = HeaderLen(CubeWidth) + 2 * CubeWidth

C18_Witness ==
    /\ cube.pc = "done"
    /\ cube.has_data
    /\ Len(cube.data) = 4
    /\ cube.data[2] = <<"STRING1", "STRING2">>
    /\ cube.out = <<"Query Results (", "1", " rows):\n\n", "Columns: ", "col1", ", ",
                    "col2", "\n\n", "1", " | ", "1001", "\n">>

\* number of data rows of the response
CubeRows == Len(cube.data) - 3

\* number of rendered row lines
RenderedRows == Cardinality({p \in DOMAIN cube.out : cube.out[p] = "\n"})

\* C19: for a response with k >= 1 data rows exactly min(k, 100) rows are
\* rendered, the i-th rendered row being the i-th data row; the "N more
\* rows" note ends the text if and only if k > 100, and then N = k - 100,
\* so that rendered rows plus N is k; without the note nothing follows the
\* rows.
C19_DisplayCap ==
    (cube.pc = "done" /\ cube.has_data /\ CubeRows >= 1) =>
        /\ RenderedRows = (IF CubeRows < 100 THEN CubeRows ELSE 100)
        /\ \A k \in 1..RenderedRows :
              SubSeq(cube.out, HeaderLen(CubeWidth) + 2 * CubeWidth * (k - 1) + 1,
                     HeaderLen(CubeWidth) + 2 * CubeWidth * k)
                 = Join(cube.data[3 + k], " | ") \o <<"\n">>
        /\ (cube.out[Len(cube.out)] = " more rows") <=> (CubeRows > 100)
        /\ CubeRows > 100 =>
              /\ SubSeq(cube.out, Len(cube.out) - 2, Len(cube.out))
                    = <<"\n... and ", ToString(CubeRows - 100), " more rows">>
              /\ Len(cube.out) = HeaderLen(CubeWidth) + 2 * CubeWidth * RenderedRows + 3
        /\ CubeRows <= 100 =>
              Len(cube.out) = HeaderLen(CubeWidth) + 2 * CubeWidth * RenderedRows

C19_Witness ==
    /\ cube.pc = "done"
    /\ cube.has_data
    /\ CubeRows = 102
    /\ RenderedRows = 100
    /\ cube.out[Len(cube.out) - 1] = "2"
    /\ cube.out[Len(cube.out) - 3] = "\n"
    /\ cube.out[Len(cube.out) - 4] \in {"100", "1100"}

NonEmptyStr(v) == v.t = "str" /\ v.s # <<>>

\* C15: values placed in a request body do not pass through the
\* path-parameter validator and are forwarded unmodified: every SQL string
\* the length check accepts is the `query` field of the body sent by
\* execute_sql_query / execute_async_query, every non-empty query_string is
\* the `queryString` field sent by query_data_cube, characters outside
\* [A-Za-z0-9_-] included, and the path carries no part of them.
C15_BodyValuesForwardedUnmodified ==
    Owned(inv) =>
        /\ (inv.name \in {"execute_sql_query", "execute_async_query"}
              /\ NonEmptyStr(inv.args.sql)
              /\ Len(inv.args.sql.s) <= cfg.max_query_length) =>
              /\ inv.nsent = 1
              /\ inv.request.json.query = inv.args.sql
              /\ inv.request.ident = <<>>
        /\ (inv.name = "query_data_cube" /\ NonEmptyStr(inv.args.query_string)) =>
              /\ inv.nsent = 1
              /\ inv.request.json.queryString = inv.args.query_string
              /\ inv.request.ident = <<>>

C15_Witness ==
    /\ inv.pc = "awaiting"
    /\ inv.handler = "datacube"
    /\ inv.name = "query_data_cube"
    /\ ~AllSafe(inv.args.query_string.s)
    /\ inv.request.json.queryString.s = <<"S", " ", "'", "x", "'", "/", ";">>
    /\ inv.request.method = "POST"

\* the timeout the handler hands to execute_query:
\* arguments.get("timeout_ms", config.default_query_timeout_ms)
SuppliedTimeout(i) ==
    DictGetDefault(i.args.timeout_ms, IntVal(cfg.default_query_timeout_ms))

ExecuteEndpoint(name) ==
    IF name = "execute_async_query" THEN "/query/sql/statements" ELSE "/query/sql"

\* C20: every request sent for execute_sql_query is a POST to
\* /v1/projects/{project_id}/query/sql and every one sent for
\* execute_async_query a POST to .../query/sql/statements; its body carries
\* the SQL as `query`, and carries `timeout` exactly when the value handed to
\* the gateway (the caller's timeout_ms, or the configured default when the
\* caller gives none) is not None, with that value.
C20_ExecuteRequestConstruction ==
    (Owned(inv) /\ inv.name \in {"execute_sql_query", "execute_async_query"}
       /\ inv.nsent = 1) =>
        /\ inv.request.method = "POST"
        /\ PathOf(inv.request) = <<"/v1/projects/", cfg.project_id, ExecuteEndpoint(inv.name)>>
        /\ inv.request.json.query = inv.args.sql
        /\ (SuppliedTimeout(inv).t # "none") <=> (inv.request.json.timeout # Absent)
        /\ inv.request.json.timeout # Absent =>
              inv.request.json.timeout = SuppliedTimeout(inv)

\* the same with `timeout` carried exactly when the value handed to the
\* gateway is truthy, which is what `if timeout_ms:` tests
ExecuteRequestWithTruthyTimeout ==
    (Owned(inv) /\ inv.name \in {"execute_sql_query", "execute_async_query"}
       /\ inv.nsent = 1) =>
        /\ inv.request.method = "POST"
        /\ PathOf(inv.request) = <<"/v1/projects/", cfg.project_id, ExecuteEndpoint(inv.name)>>
        /\ inv.request.json.query = inv.args.sql
        /\ (~Falsy(SuppliedTimeout(inv))) <=> (inv.request.json.timeout # Absent)
        /\ inv.request.json.timeout # Absent =>
              inv.request.json.timeout = SuppliedTimeout(inv)

====
